---- MODULE Spec2Model ----
(***************************************************************************)
(* Model of the fitness API: the relational store declared in              *)
(* prisma/schema.prisma and the request handlers of                        *)
(* controllers/workoutsController.js and controllers/usersController.js.   *)
(* A handler is cut at its awaits on the store: every action is one        *)
(* database round trip together with the synchronous code around it, so    *)
(* handlers of concurrent requests interleave between their round trips.   *)
(***************************************************************************)
EXTENDS Integers, Sequences, FiniteSets, TLC

\* ------------------------------------------------------------------ bounds
NumReq == 2         \* requests that can be in flight at the same time
MaxUserId == 2      \* ids the User sequence hands out
MaxExerciseId == 2  \* ids the Exercise sequence hands out
MaxWorkoutId == 2   \* ids the Workout sequence hands out
MaxWeId == 3        \* ids the WorkoutExercise sequence hands out
MaxLogId == 1       \* ids the Log sequence hands out
MaxLen == 2         \* longest exercises list of a request body

Req == 1 .. NumReq
UserIds == 1 .. MaxUserId
ExerciseIdsDom == 1 .. MaxExerciseId
WorkoutIds == 1 .. MaxWorkoutId

\* ------------------------------------------------- optional (JS undefined)
\* An optional value is the empty set (undefined) or a singleton.
None == {}
Some(v) == {v}
Get(o) == CHOOSE v \in o : TRUE

\* ---------------------------------------------------------------- strings
\* A string is a sequence of characters; " " is the only whitespace used.
RECURSIVE TrimLeft(_)
TrimLeft(s) == IF s # << >> /\ Head(s) = " " THEN TrimLeft(Tail(s)) ELSE s

RECURSIVE TrimRight(_)
TrimRight(s) ==
    IF s # << >> /\ s[Len(s)] = " " THEN TrimRight(SubSeq(s, 1, Len(s) - 1)) ELSE s

\* String.prototype.trim
Trim(s) == TrimRight(TrimLeft(s))

\* description?.trim(): undefined stays undefined
TrimOpt(o) == IF o = None THEN None ELSE Some(Trim(Get(o)))

\* (mutation) the name is not trimmed before it is tested
NameInvalidRequiredNoTrim(name) == name = None \/ Get(name) = << >>

\* !name || typeof name !== 'string' || name.trim() === ''
NameInvalidRequired(name) == name = None \/ Get(name) = << >> \/ Trim(Get(name)) = << >>

\* name !== undefined && (typeof name !== 'string' || name.trim() === '')
NameInvalidIfProvided(name) == name # None /\ Trim(Get(name)) = << >>

\* ------------------------------------------------------------------ state
VARIABLES
    users,             \* User rows (their ids)
    exercises,         \* Exercise rows (their ids)
    workouts,          \* Workout rows
    workoutExercises,  \* WorkoutExercise rows
    logs,              \* Log rows
    userData,          \* per User row: username, email, passwordHash
    exerciseData,      \* per Exercise row: name, description
    nextUserId, nextExerciseId, nextWorkoutId, nextWeId, nextLogId,
    pc,                \* per request: the await the handler is suspended at
    req,               \* per request: operation, parameters, body, locals
    resp               \* per request: the response sent

columns == <<userData, exerciseData>>
store == <<users, exercises, workouts, workoutExercises, logs, columns>>
seqs == <<nextUserId, nextExerciseId, nextWorkoutId, nextWeId, nextLogId>>
vars == <<users, exercises, workouts, workoutExercises, logs, userData, exerciseData,
          nextUserId, nextExerciseId, nextWorkoutId, nextWeId, nextLogId,
          pc, req, resp>>

NoReq == [op |-> "none", id |-> 0, name |-> None, description |-> None,
          exercises |-> None, existing |-> None]
NoResp == [status |-> 0, error |-> "", body |-> {}]

Request(op, id, name, description, exs) ==
    [op |-> op, id |-> id, name |-> name, description |-> description,
     exercises |-> exs, existing |-> None]

\* res.status(s).json({error: e})
ErrorResp(s, e) == [status |-> s, error |-> e, body |-> {}]
\* res.status(s).json(body) / res.status(204).send()
OkResp(s, body) == [status |-> s, error |-> "", body |-> body]

\* --------------------------------------------------------- store queries
WorkoutIdsOf(ws) == {w.id : w \in ws}

\* prisma.workout.findUnique({where: {id}})
FindWorkout(ws, id) == {w \in ws : w.id = id}

\* the WorkoutExercise rows of one workout
RowsOf(wes, workoutId) == {x \in wes : x.workoutId = workoutId}

\* exercises.map(exercise => exercise.exerciseId)
ExerciseIdList(exs) == [i \in DOMAIN exs |-> exs[i].exerciseId]

\* prisma.exercise.findMany({where: {id: {in: exerciseIds}}})
FindManyExercises(exRows, ids) == {e \in exRows : \E i \in DOMAIN ids : ids[i] = e}

\* (mutation) the lookup is only required to find something
ExercisesMissingNoneFound(exRows, exs) ==
    Cardinality(FindManyExercises(exRows, ExerciseIdList(exs))) = 0

\* existingExercises.length !== exerciseIds.length
ExercisesMissing(exRows, exs) ==
    Cardinality(FindManyExercises(exRows, ExerciseIdList(exs))) # Len(ExerciseIdList(exs))

\* x || 1
OrOne(o) == IF o = None \/ Get(o) = 0 THEN 1 ELSE Get(o)

\* one element of the create / createMany data
WorkoutExerciseData(workoutId, e, id) ==
    [id |-> id, workoutId |-> workoutId, exerciseId |-> e.exerciseId,
     sets |-> OrOne(e.sets), order |-> OrOne(e.order)]

\* (mutation) only the first entry of the list is inserted
NewRowsFirstOnly(workoutId, exs, base) ==
    {WorkoutExerciseData(workoutId, exs[i], base + i - 1) : i \in DOMAIN exs \cap {1}}

\* the rows a list of entries is inserted as; ids come from the sequence
NewRows(workoutId, exs, base) ==
    {WorkoutExerciseData(workoutId, exs[i], base + i - 1) : i \in DOMAIN exs}

\* WorkoutExercise_exerciseId_fkey / Workout_userId_fkey on insert
ForeignKeyFails(userRows, exRows, userId, rows) ==
    userId \notin userRows \/ \E x \in rows : x.exerciseId \notin exRows

\* the columns of WorkoutExercise_workoutId_exerciseId_order_key
UniqueKey(x) == <<x.workoutId, x.exerciseId, x.order>>

\* (mutation) the table has no unique index
UniqueFailsNever(oldRows, rows) == FALSE

\* WorkoutExercise_workoutId_exerciseId_order_key on insert
UniqueFails(oldRows, rows) ==
    \/ \E x \in rows, y \in rows : x.id # y.id /\ UniqueKey(x) = UniqueKey(y)
    \/ \E x \in rows, y \in oldRows : UniqueKey(x) = UniqueKey(y)

\* all enumerations of a finite set as a sequence
SeqsOf(S) ==
    {s \in [1 .. Cardinality(S) -> S] : \A i, j \in DOMAIN s : i # j => s[i] # s[j]}

\* include: {workoutExercises: ...} without orderBy: the store picks the order
IncludeRows(wes, workoutId) == SeqsOf(RowsOf(wes, workoutId))

\* (mutation) the read may return a part of the rows
IncludeRowsByOrderPartial(wes, workoutId) ==
    UNION {SeqsOf(S) : S \in SUBSET RowsOf(wes, workoutId)}

\* (mutation) the rows come in the order the store picks
IncludeRowsByOrderUnsorted(wes, workoutId) == SeqsOf(RowsOf(wes, workoutId))

\* include: {workoutExercises: {orderBy: {order: 'asc'}}}
IncludeRowsByOrder(wes, workoutId) ==
    {s \in SeqsOf(RowsOf(wes, workoutId)) :
        \A i, j \in DOMAIN s : i < j => s[i].order <= s[j].order}

\* a workout as it is serialised in a response body
View(w, rows) == [id |-> w.id, userId |-> w.userId, name |-> w.name,
                  description |-> w.description, workoutExercises |-> rows]

\* -------------------------------------------------------- request bodies
\* the (sets, order) fields an entry of a request can carry
Shapes == {<<None, None>>, <<Some(3), Some(2)>>}
Entries ==
    {[exerciseId |-> e, sets |-> p[1], order |-> p[2]] : e \in ExerciseIdsDom, p \in Shapes}
ExerciseLists == UNION {[1 .. n -> Entries] : n \in 0 .. MaxLen}
Body(name, description, exs) == [name |-> name, description |-> description, exercises |-> exs]
\* bodies of POST /users/:userId/workouts
CreateBodies ==
    {Body(None, None, None), Body(Some(<<" ">>), None, None),
     Body(Some(<<"A", " ">>), None, None)}
    \cup {Body(Some(<<"A", " ">>), Some(<<"D", " ">>), Some(l)) : l \in ExerciseLists}
\* bodies of PUT /workouts/:id
UpdateBodies ==
    {Body(Some(<<" ">>), None, None)}
    \cup {Body(None, None, e) : e \in {None} \cup {Some(l) : l \in ExerciseLists}}

\* ------------------------------------------------------- users, exercises
\* usernames, e-mail addresses and exercise names, one per id
Usernames == <<"ann", "bob", "cyd", "dee">>
Emails == <<"ann@x", "bob@x", "cyd@x", "dee@x">>
ExerciseNames == <<"e", "f", "g", "h">>

\* (mutation) no password matches a hash
CompareNever(password, hash) == FALSE

\* bcrypt.hash(password, salt), and bcrypt.compare(password, hash)
Hash(password) == [hashOf |-> password]
Compare(password, hash) == hash.hashOf = password

\* the columns of the users and exercises the server starts with
SeedUser(u) == [username |-> Usernames[u], email |-> Emails[u], passwordHash |-> Hash("pw")]
SeedExercise(e) == [name |-> <<ExerciseNames[e]>>, description |-> None]

\* ------------------------------------------------------------------- Init
\* the server starts on a database that holds the users and the exercise
\* catalogue and no workout yet
Init ==
    /\ users = UserIds /\ exercises = ExerciseIdsDom /\ workouts = {}
    /\ userData = [u \in UserIds |-> SeedUser(u)]
    /\ exerciseData = [e \in ExerciseIdsDom |-> SeedExercise(e)]
    /\ workoutExercises = {} /\ logs = {}
    /\ nextUserId = MaxUserId + 1 /\ nextExerciseId = MaxExerciseId + 1 /\ nextWorkoutId = 1
    /\ nextWeId = 1 /\ nextLogId = 1
    /\ pc = [r \in Req |-> "idle"]
    /\ req = [r \in Req |-> NoReq]
    /\ resp = [r \in Req |-> NoResp]

\* the handler of request r sends its response and returns: its locals are gone
Respond(r, q, a) ==
    /\ pc' = [pc EXCEPT ![r] = "done"]
    /\ req' = [req EXCEPT ![r] = Request(q.op, q.id, None, None, None)]
    /\ resp' = [resp EXCEPT ![r] = a]

\* (mutation) a response is sent and the handler goes on to its next await
SuspendSent(r, q, at) ==
    /\ pc' = [pc EXCEPT ![r] = at]
    /\ req' = [req EXCEPT ![r] = q]
    /\ resp' = [resp EXCEPT ![r] = ErrorResp(400, "sent")]

\* the handler of request r suspends at the await named at
Suspend(r, q, at) ==
    /\ pc' = [pc EXCEPT ![r] = at]
    /\ req' = [req EXCEPT ![r] = q]
    /\ resp' = [resp EXCEPT ![r] = NoResp]

\* the response has been delivered; the slot serves the next request
Close(r) ==
    /\ pc[r] = "done"
    /\ pc' = [pc EXCEPT ![r] = "idle"]
    /\ req' = [req EXCEPT ![r] = NoReq]
    /\ resp' = [resp EXCEPT ![r] = NoResp]
    /\ UNCHANGED <<store, seqs>>

\* ------------------------------------------------------------------ logs
\* a Log row inserted by a client of the database (no route writes logs);
\* Log_userId_fkey, Log_workoutId_fkey, Log_workoutExerciseId_fkey hold
CreateLog(userId, workoutId, weId) ==
    /\ nextLogId <= MaxLogId
    /\ userId \in users
    /\ workoutId \in {w.id : w \in workouts}
    /\ weId \in {x.id : x \in workoutExercises}
    /\ logs' = logs \cup {[id |-> nextLogId, userId |-> userId, workoutId |-> workoutId,
                           workoutExerciseId |-> weId]}
    /\ nextLogId' = nextLogId + 1
    /\ UNCHANGED <<users, exercises, workouts, workoutExercises, columns,
                   nextUserId, nextExerciseId, nextWorkoutId, nextWeId, pc, req, resp>>

\* --------------------------------------------------------- createWorkout
\* the catch block of createWorkout
CreateWorkoutCatch(code) ==
    IF code = "P2003" THEN ErrorResp(404, "One or more exercises not found")
    ELSE IF code = "P2025" THEN ErrorResp(404, "User not found")
    ELSE ErrorResp(500, "Failed to create workout")

\* createWorkout up to the result of the exercise lookup
CreateWorkoutCheck(r, userId, b) ==
    /\ pc[r] = "idle"
    /\ LET q == Request("createWorkout", userId, b.name, b.description, b.exercises) IN
        IF NameInvalidRequired(b.name)
        THEN Respond(r, q, ErrorResp(400,
                 "Workout name is required and must be a non-empty string"))
        ELSE IF b.exercises = None \/ Len(Get(b.exercises)) = 0
        THEN Respond(r, q, ErrorResp(400, "At least one exercise is required"))
        ELSE IF ExercisesMissing(exercises, Get(b.exercises))
        THEN Respond(r, q, ErrorResp(404, "One or more exercises do not exist"))
        ELSE Suspend(r, q, "createWorkout.create")
    /\ UNCHANGED <<store, seqs>>

\* the outcome of prisma.workout.create with its nested create
CreateWorkoutCode(userRows, exRows, oldRows, userId, rows) ==
    IF ForeignKeyFails(userRows, exRows, userId, rows) THEN "P2003"
    ELSE IF UniqueFails(oldRows, rows) THEN "P2002"
    ELSE "ok"

\* (mutation) the Workout row of a failed nested create stays
NestedRollbackNone(before, written) == written

\* prisma.workout.create with a nested create is one transaction: when a
\* WorkoutExercise insert fails, the Workout row inserted before it is undone
NestedRollback(before, written) == before

\* createWorkout from prisma.workout.create to the response
CreateWorkoutInsert(r) ==
    /\ pc[r] = "createWorkout.create"
    /\ LET q == req[r]
           exs == Get(q.exercises)
           w == [id |-> nextWorkoutId, userId |-> q.id, name |-> Trim(Get(q.name)),
                 description |-> TrimOpt(q.description)]
           rows == NewRows(w.id, exs, nextWeId)
           code == CreateWorkoutCode(users, exercises, workoutExercises, q.id, rows)
       IN  IF code = "ok"
           THEN /\ nextWorkoutId <= MaxWorkoutId
                /\ nextWeId + Len(exs) - 1 <= MaxWeId
                /\ workouts' = workouts \cup {w}
                /\ workoutExercises' = workoutExercises \cup rows
                /\ nextWorkoutId' = nextWorkoutId + 1
                /\ nextWeId' = nextWeId + Len(exs)
                /\ \E s \in SeqsOf(rows) : Respond(r, q, OkResp(201, {View(w, s)}))
           ELSE /\ Respond(r, q, CreateWorkoutCatch(code))
                /\ workouts' = NestedRollback(workouts,
                                  IF q.id \in users THEN workouts \cup {w} ELSE workouts)
                /\ UNCHANGED <<workoutExercises, nextWorkoutId, nextWeId>>
    /\ UNCHANGED <<users, exercises, logs, columns, nextUserId, nextExerciseId, nextLogId>>

\* --------------------------------------------------------- updateWorkout
\* updateWorkout up to the validation of the name
UpdateWorkoutRead(r, workoutId, b) ==
    /\ pc[r] = "idle"
    /\ LET q == Request("updateWorkout", workoutId, b.name, b.description, b.exercises)
           existingWorkout == FindWorkout(workouts, workoutId)
       IN  IF existingWorkout = {}
           THEN Respond(r, q, ErrorResp(404, "Workout not found"))
           ELSE IF NameInvalidIfProvided(b.name)
           THEN Respond(r, q, ErrorResp(400,
                    "Workout name must be a non-empty string if provided"))
           ELSE Suspend(r, [q EXCEPT !.existing = existingWorkout], "updateWorkout.tx")
    /\ UNCHANGED <<store, seqs>>

\* (mutation) the update also writes the owner
UpdateWorkoutDataOwner(q, w) == [w EXCEPT !.userId = 1]

\* the data of tx.workout.update
UpdateWorkoutData(q, w) ==
    [w EXCEPT !.name = IF q.name # None THEN Trim(Get(q.name))
                       ELSE Get(q.existing).name,
              !.description = IF q.description # None THEN TrimOpt(q.description)
                              ELSE Get(q.existing).description]

\* (mutation) an empty exercises list is accepted
UpdateWorkoutCodeAllowEmpty(ws, exRows, q) ==
    IF FindWorkout(ws, q.id) = {} THEN "P2025"
    ELSE IF q.exercises = None THEN "ok"
    ELSE IF ExercisesMissing(exRows, Get(q.exercises))
    THEN "One or more exercises do not exist"
    ELSE "ok"

\* the error thrown inside or by the transaction, "ok" when it commits
UpdateWorkoutCode(ws, exRows, q) ==
    IF FindWorkout(ws, q.id) = {} THEN "P2025"
    ELSE IF q.exercises = None THEN "ok"
    ELSE IF Len(Get(q.exercises)) = 0 THEN "At least one exercise is required"
    ELSE IF ExercisesMissing(exRows, Get(q.exercises))
    THEN "One or more exercises do not exist"
    ELSE "ok"

\* the catch block of updateWorkout
UpdateWorkoutCatch(code) ==
    IF code = "At least one exercise is required" THEN ErrorResp(400, code)
    ELSE IF code = "One or more exercises do not exist" THEN ErrorResp(404, code)
    ELSE ErrorResp(500, "Failed to update workout")

\* (mutation) the old rows are kept
DeleteManyRowsNone(wes, workoutId) == wes

\* tx.workoutExercise.deleteMany({where: {workoutId}})
DeleteManyRows(wes, workoutId) == {x \in wes : x.workoutId # workoutId}

\* (mutation) Log_workoutExerciseId_fkey does not cascade
LogsWithoutRowsNone(ls, rowIds) == ls

\* Log_workoutExerciseId_fkey ON DELETE CASCADE
LogsWithoutRows(ls, rowIds) == {l \in ls : l.workoutExerciseId \notin rowIds}

\* (mutation) the writes of a failed transaction stay
TxRollbackNone(before, written) == written

\* prisma.$transaction: the callback threw, what it wrote is rolled back
TxRollback(before, written) == before

\* the Workout table after tx.workout.update
WorkoutsUpdated(ws, q) ==
    {IF w.id = q.id THEN UpdateWorkoutData(q, w) ELSE w : w \in ws}

\* updateWorkout from prisma.$transaction to the response
UpdateWorkoutTx(r) ==
    /\ pc[r] = "updateWorkout.tx"
    /\ LET q == req[r]
           code == UpdateWorkoutCode(workouts, exercises, q)
       IN  IF code # "ok"
           THEN /\ Respond(r, q, UpdateWorkoutCatch(code))
                /\ workouts' = TxRollback(workouts, WorkoutsUpdated(workouts, q))
                /\ UNCHANGED <<workoutExercises, logs, nextWeId>>
           ELSE LET w == Get(FindWorkout(workouts, q.id))
                    w2 == UpdateWorkoutData(q, w)
                    replace == q.exercises # None
                    exs == IF replace THEN Get(q.exercises) ELSE << >>
                    kept == IF replace THEN DeleteManyRows(workoutExercises, q.id)
                            ELSE workoutExercises
                    rows == NewRows(q.id, exs, nextWeId)
                    gone == {x.id : x \in workoutExercises \ kept}
                IN  IF ForeignKeyFails(users, exercises, w.userId, rows)
                       \/ UniqueFails(kept, rows)
                    THEN /\ Respond(r, q, UpdateWorkoutCatch("P2002"))
                         /\ workouts' = TxRollback(workouts, WorkoutsUpdated(workouts, q))
                         /\ workoutExercises' = TxRollback(workoutExercises, kept)
                         /\ logs' = TxRollback(logs, LogsWithoutRows(logs, gone))
                         /\ UNCHANGED nextWeId
                    ELSE /\ nextWeId + Len(exs) - 1 <= MaxWeId
                         /\ workouts' = WorkoutsUpdated(workouts, q)
                         /\ workoutExercises' = kept \cup rows
                         /\ logs' = LogsWithoutRows(logs, gone)
                         /\ nextWeId' = nextWeId + Len(exs)
                         /\ \E s \in IncludeRowsByOrder(kept \cup rows, q.id) :
                                Respond(r, q, OkResp(200, {View(w2, s)}))
    /\ UNCHANGED <<users, exercises, columns,
                   nextUserId, nextExerciseId, nextWorkoutId, nextLogId>>

\* --------------------------------------------------------- deleteWorkout
\* deleteWorkout up to the existence check
DeleteWorkoutRead(r, workoutId) ==
    /\ pc[r] = "idle"
    /\ LET q == Request("deleteWorkout", workoutId, None, None, None) IN
        IF FindWorkout(workouts, workoutId) = {}
        THEN Respond(r, q, ErrorResp(404, "Workout not found"))
        ELSE Suspend(r, q, "deleteWorkout.delete")
    /\ UNCHANGED <<store, seqs>>

\* the catch block of deleteWorkout
DeleteWorkoutCatch(code) ==
    IF code = "P2003"
    THEN ErrorResp(400, "Cannot delete workout that has workout logs. Delete logs first.")
    ELSE ErrorResp(500, "Failed to delete workout")

\* (mutation) WorkoutExercise_workoutId_fkey does not cascade
RowsWithoutWorkoutsNone(wes, workoutIds) == wes

\* WorkoutExercise_workoutId_fkey ON DELETE CASCADE
RowsWithoutWorkouts(wes, workoutIds) == {x \in wes : x.workoutId \notin workoutIds}

\* (mutation) only Log_workoutExerciseId_fkey cascades
LogsWithoutWorkoutsRowsOnly(ls, wes, workoutIds) ==
    {l \in ls : l.workoutExerciseId \notin
                    {x.id : x \in wes \ RowsWithoutWorkouts(wes, workoutIds)}}

\* Log_workoutId_fkey and Log_workoutExerciseId_fkey ON DELETE CASCADE
LogsWithoutWorkouts(ls, wes, workoutIds) ==
    {l \in ls : /\ l.workoutId \notin workoutIds
                /\ l.workoutExerciseId \notin
                       {x.id : x \in wes \ RowsWithoutWorkouts(wes, workoutIds)}}

\* deleteWorkout from prisma.workout.delete to the response
DeleteWorkoutDelete(r) ==
    /\ pc[r] = "deleteWorkout.delete"
    /\ LET q == req[r] IN
        IF FindWorkout(workouts, q.id) = {}
        THEN /\ Respond(r, q, DeleteWorkoutCatch("P2025"))
             /\ UNCHANGED <<workouts, workoutExercises, logs>>
        ELSE /\ workouts' = workouts \ FindWorkout(workouts, q.id)
             /\ workoutExercises' = RowsWithoutWorkouts(workoutExercises, {q.id})
             /\ logs' = LogsWithoutWorkouts(logs, workoutExercises, {q.id})
             /\ Respond(r, q, OkResp(204, {}))
    /\ UNCHANGED <<users, exercises, columns, seqs>>

\* -------------------------------------------------------- deleteExercise
\* deleteExercise up to the existence check
DeleteExerciseRead(r, exerciseId) ==
    /\ pc[r] = "idle"
    /\ LET q == Request("deleteExercise", exerciseId, None, None, None) IN
        IF exerciseId \notin exercises
        THEN Respond(r, q, ErrorResp(404, "Exercise not found"))
        ELSE Suspend(r, q, "deleteExercise.delete")
    /\ UNCHANGED <<store, seqs>>

\* (mutation) WorkoutExercise_exerciseId_fkey does not restrict
DeleteExerciseCodeNoRestrict(exRows, wes, exerciseId) ==
    IF exerciseId \notin exRows THEN "P2025" ELSE "ok"

\* the outcome of prisma.exercise.delete:
\* WorkoutExercise_exerciseId_fkey is ON DELETE RESTRICT
DeleteExerciseCode(exRows, wes, exerciseId) ==
    IF exerciseId \notin exRows THEN "P2025"
    ELSE IF \E x \in wes : x.exerciseId = exerciseId THEN "P2003"
    ELSE "ok"

\* the catch block of deleteExercise
DeleteExerciseCatch(code) ==
    IF code = "P2003"
    THEN ErrorResp(400,
        "Cannot delete exercise that is used in workouts. Remove it from workouts first.")
    ELSE ErrorResp(500, "Failed to delete exercise")

\* deleteExercise from prisma.exercise.delete to the response
DeleteExerciseDelete(r) ==
    /\ pc[r] = "deleteExercise.delete"
    /\ LET q == req[r]
           code == DeleteExerciseCode(exercises, workoutExercises, q.id)
       IN  IF code = "ok"
           THEN /\ exercises' = exercises \ {q.id}
                /\ exerciseData' = [e \in exercises \ {q.id} |-> exerciseData[e]]
                /\ Respond(r, q, OkResp(204, {}))
           ELSE /\ Respond(r, q, DeleteExerciseCatch(code))
                /\ UNCHANGED <<exercises, exerciseData>>
    /\ UNCHANGED <<users, userData, workouts, workoutExercises, logs, seqs>>

\* ------------------------------------------------------------ deleteUser
\* deleteUser up to the existence check
DeleteUserRead(r, userId) ==
    /\ pc[r] = "idle"
    /\ LET q == Request("deleteUser", userId, None, None, None) IN
        IF userId \notin users
        THEN Respond(r, q, ErrorResp(404, "User not found"))
        ELSE Suspend(r, q, "deleteUser.delete")
    /\ UNCHANGED <<store, seqs>>

\* the catch block of deleteUser
DeleteUserCatch(code) ==
    IF code = "P2003"
    THEN ErrorResp(400, "Cannot delete user with associated workouts. Delete workouts first.")
    ELSE ErrorResp(500, "Failed to delete user")

\* (mutation) the owner is not looked at
WorkoutsOfUserAll(ws, userId) == ws

\* Workout_userId_fkey ON DELETE CASCADE: the workouts that go with a user
WorkoutsOfUser(ws, userId) == {w \in ws : w.userId = userId}

\* (mutation) Log_userId_fkey does not cascade
LogsWithoutUserNone(ls, userId) == ls

\* Log_userId_fkey ON DELETE CASCADE
LogsWithoutUser(ls, userId) == {l \in ls : l.userId # userId}

\* deleteUser from prisma.user.delete to the response
DeleteUserDelete(r) ==
    /\ pc[r] = "deleteUser.delete"
    /\ LET q == req[r]
           owned == WorkoutIdsOf(WorkoutsOfUser(workouts, q.id))
       IN  IF q.id \notin users
           THEN /\ Respond(r, q, DeleteUserCatch("P2025"))
                /\ UNCHANGED <<users, userData, workouts, workoutExercises, logs>>
           ELSE /\ users' = users \ {q.id}
                /\ userData' = [u \in users \ {q.id} |-> userData[u]]
                /\ workouts' = workouts \ WorkoutsOfUser(workouts, q.id)
                /\ workoutExercises' = RowsWithoutWorkouts(workoutExercises, owned)
                /\ logs' = LogsWithoutUser(
                               LogsWithoutWorkouts(logs, workoutExercises, owned), q.id)
                /\ Respond(r, q, OkResp(204, {}))
    /\ UNCHANGED <<exercises, exerciseData, seqs>>

\* ------------------------------------------------------------------ reads
\* the status getWorkoutById answers with
GetWorkoutByIdStatus(ws, workoutId) == IF FindWorkout(ws, workoutId) = {} THEN 404 ELSE 200

\* getWorkoutById
GetWorkoutById(r, workoutId) ==
    /\ pc[r] = "idle"
    /\ LET q == Request("getWorkoutById", workoutId, None, None, None)
           workout == FindWorkout(workouts, workoutId)
       IN  IF GetWorkoutByIdStatus(workouts, workoutId) = 404
           THEN Respond(r, q, ErrorResp(404, "Workout not found"))
           ELSE \E s \in IncludeRowsByOrder(workoutExercises, workoutId) :
                    Respond(r, q, OkResp(200, {View(Get(workout), s)}))
    /\ UNCHANGED <<store, seqs>>

\* the status getUserById answers with
GetUserByIdStatus(userRows, userId) == IF userId \notin userRows THEN 404 ELSE 200

\* getUserById
GetUserById(r, userId) ==
    /\ pc[r] = "idle"
    /\ LET q == Request("getUserById", userId, None, None, None) IN
        IF GetUserByIdStatus(users, userId) = 404
        THEN Respond(r, q, ErrorResp(404, "User not found"))
        ELSE Respond(r, q, OkResp(200, {}))
    /\ UNCHANGED <<store, seqs>>

\* the status getExerciseById answers with
GetExerciseByIdStatus(exRows, exerciseId) == IF exerciseId \notin exRows THEN 404 ELSE 200

\* getExerciseById
GetExerciseById(r, exerciseId) ==
    /\ pc[r] = "idle"
    /\ LET q == Request("getExerciseById", exerciseId, None, None, None) IN
        IF GetExerciseByIdStatus(exercises, exerciseId) = 404
        THEN Respond(r, q, ErrorResp(404, "Exercise not found"))
        ELSE Respond(r, q, OkResp(200, {}))
    /\ UNCHANGED <<store, seqs>>

\* getUserWorkouts up to the lookup of the user
GetUserWorkoutsRead(r, userId) ==
    /\ pc[r] = "idle"
    /\ LET q == Request("getUserWorkouts", userId, None, None, None) IN
        IF userId \notin users
        THEN Respond(r, q, ErrorResp(404, "User not found"))
        ELSE Suspend(r, q, "getUserWorkouts.findMany")
    /\ UNCHANGED <<store, seqs>>

\* prisma.workout.findMany({where: {userId}, include: ...}): the bodies it can give
FindManyWorkouts(ws, wes, userId) ==
    LET found == WorkoutsOfUser(ws, userId)
        lists == UNION {IncludeRows(wes, w.id) : w \in found}
    IN  {{View(w, f[w]) : w \in found} :
            f \in {g \in [found -> lists] : \A w \in found : g[w] \in IncludeRows(wes, w.id)}}

\* getUserWorkouts from prisma.workout.findMany to the response
GetUserWorkoutsFind(r) ==
    /\ pc[r] = "getUserWorkouts.findMany"
    /\ \E body \in FindManyWorkouts(workouts, workoutExercises, req[r].id) :
           Respond(r, req[r], OkResp(200, body))
    /\ UNCHANGED <<store, seqs>>

\* --------------------------------------------------- users (create, update)
\* req.body of createUser, register and updateUser
UserBodies ==
    {[username |-> n, email |-> m, password |-> Some("pw"), passwordHash |-> Some(Hash("pw"))] :
        n \in {None} \cup {Some(Usernames[i]) : i \in UserIds},
        m \in {None} \cup {Some(Emails[i]) : i \in UserIds}}

\* (mutation) only the username is unique
UserUniqueFailsUsername(data, self, username, email) ==
    \E u \in DOMAIN data : u # self /\ data[u].username = username

\* User_username_key, User_email_key: another row holds the username or e-mail
UserUniqueFails(data, self, username, email) ==
    \E u \in DOMAIN data :
        u # self /\ (data[u].username = username \/ data[u].email = email)

\* the User table after the insert or update of one row
UserDataWith(data, id, row) ==
    [u \in DOMAIN data \cup {id} |-> IF u = id THEN row ELSE data[u]]

\* the outcome of prisma.user.create: a missing column is a validation error
CreateUserCode(data, username, email, passwordHash) ==
    IF username = None \/ email = None \/ passwordHash = None THEN "validation"
    ELSE IF UserUniqueFails(data, 0, Get(username), Get(email)) THEN "P2002"
    ELSE "ok"

\* the catch block of createUser
CreateUserCatch(code) ==
    IF code = "P2002"
    THEN ErrorResp(409, "A user with this username or email already exists")
    ELSE ErrorResp(500, "Failed to create user")

\* createUser
CreateUser(r, b) ==
    /\ pc[r] = "idle"
    /\ LET q == Request("createUser", 0, None, None, None)
           code == CreateUserCode(userData, b.username, b.email, b.passwordHash)
       IN  IF code = "ok"
           THEN LET row == [username |-> Get(b.username), email |-> Get(b.email),
                            passwordHash |-> Get(b.passwordHash)]
                IN  /\ nextUserId <= MaxUserId
                    /\ users' = users \cup {nextUserId}
                    /\ userData' = UserDataWith(userData, nextUserId, row)
                    /\ nextUserId' = nextUserId + 1
                    /\ Respond(r, q, OkResp(201,
                           {[id |-> nextUserId, username |-> row.username,
                             email |-> row.email, passwordHash |-> row.passwordHash]}))
           ELSE /\ Respond(r, q, CreateUserCatch(code))
                /\ UNCHANGED <<users, userData, nextUserId>>
    /\ UNCHANGED <<exercises, exerciseData, workouts, workoutExercises, logs,
                   nextExerciseId, nextWorkoutId, nextWeId, nextLogId>>

\* jwt.sign({userId}, process.env.JWT_SECRET, {expiresIn: '24h'}), within its 24 hours
Sign(userId) == [userId |-> userId, key |-> "JWT_SECRET", expired |-> FALSE]

\* the catch block of register
RegisterCatch(code) ==
    IF code = "P2002"
    THEN ErrorResp(409, "A user with this username or email already exists")
    ELSE ErrorResp(500, "Failed to register user")

\* register
Register(r, b) ==
    /\ pc[r] = "idle"
    /\ LET q == Request("register", 0, None, None, None) IN
        IF b.username = None \/ b.email = None \/ b.password = None
        THEN /\ Respond(r, q, ErrorResp(400, "Username, email, and password are required"))
             /\ UNCHANGED <<users, userData, nextUserId>>
        ELSE LET passwordHash == Hash(Get(b.password))
                 code == CreateUserCode(userData, b.username, b.email, Some(passwordHash))
             IN  IF code = "ok"
                 THEN /\ nextUserId <= MaxUserId
                      /\ users' = users \cup {nextUserId}
                      /\ userData' = UserDataWith(userData, nextUserId,
                             [username |-> Get(b.username), email |-> Get(b.email),
                              passwordHash |-> passwordHash])
                      /\ nextUserId' = nextUserId + 1
                      /\ Respond(r, q, OkResp(201,
                             {[user |-> [id |-> nextUserId, username |-> Get(b.username),
                                         email |-> Get(b.email)],
                               token |-> Sign(nextUserId)]}))
                 ELSE /\ Respond(r, q, RegisterCatch(code))
                      /\ UNCHANGED <<users, userData, nextUserId>>
    /\ UNCHANGED <<exercises, exerciseData, workouts, workoutExercises, logs,
                   nextExerciseId, nextWorkoutId, nextWeId, nextLogId>>

\* the passwords a client types
Passwords == {"pw", "no"}

\* req.body of register with any of the passwords
CredentialBodies ==
    {[username |-> n, email |-> m, password |-> p, passwordHash |-> None] :
        n \in {None} \cup {Some(Usernames[i]) : i \in UserIds},
        m \in {None} \cup {Some(Emails[i]) : i \in UserIds},
        p \in {None} \cup {Some(x) : x \in Passwords}}

\* req.body of login
LoginBodies ==
    {[email |-> m, password |-> p] :
        m \in {None} \cup {Some(Emails[i]) : i \in UserIds},
        p \in {None} \cup {Some(x) : x \in Passwords}}

\* (mutation) the lookup finds no user
FindUserByEmailNone(data, email) == {}

\* prisma.user.findUnique({where: {email}}): the ids found (email is unique)
FindUserByEmail(data, email) == {u \in DOMAIN data : data[u].email = email}

\* (mutation) an unknown e-mail is told apart from a wrong password
LoginResponseTelling(data, b) ==
    IF b.email = None \/ b.password = None
    THEN ErrorResp(400, "Email and password are required")
    ELSE LET found == FindUserByEmail(data, Get(b.email)) IN
         IF found = {} THEN ErrorResp(404, "User not found")
         ELSE IF ~Compare(Get(b.password), data[Get(found)].passwordHash)
         THEN ErrorResp(401, "Invalid credentials")
         ELSE OkResp(200, {[user |-> [id |-> Get(found),
                                      username |-> data[Get(found)].username,
                                      email |-> data[Get(found)].email],
                            token |-> Sign(Get(found))]})

\* what login answers
LoginResponse(data, b) ==
    IF b.email = None \/ b.password = None
    THEN ErrorResp(400, "Email and password are required")
    ELSE LET found == FindUserByEmail(data, Get(b.email)) IN
         IF found = {} THEN ErrorResp(401, "Invalid credentials")
         ELSE IF ~Compare(Get(b.password), data[Get(found)].passwordHash)
         THEN ErrorResp(401, "Invalid credentials")
         ELSE OkResp(200, {[user |-> [id |-> Get(found),
                                      username |-> data[Get(found)].username,
                                      email |-> data[Get(found)].email],
                            token |-> Sign(Get(found))]})

\* login: the user is read once, the password is compared with the row read
Login(r, b) ==
    /\ pc[r] = "idle"
    /\ Respond(r, Request("login", 0, None, None, None), LoginResponse(userData, b))
    /\ UNCHANGED <<store, seqs>>

\* a suspended handler of updateUser or updateExercise: its body and the row it read
UpdateRequest(op, id, b, existing) ==
    ("body" :> b) @@ [Request(op, id, None, None, None) EXCEPT !.existing = Some(existing)]

\* updateUser up to the existence check
UpdateUserRead(r, userId, b) ==
    /\ pc[r] = "idle"
    /\ IF userId \notin users
       THEN Respond(r, Request("updateUser", userId, None, None, None),
                    ErrorResp(404, "User not found"))
       ELSE Suspend(r, UpdateRequest("updateUser", userId, b, userData[userId]),
                    "updateUser.update")
    /\ UNCHANGED <<store, seqs>>

\* the catch block of updateUser
UpdateUserCatch(code) ==
    IF code = "P2002"
    THEN ErrorResp(409, "Username or email already in use by another user")
    ELSE ErrorResp(500, "Failed to update user")

\* the data of prisma.user.update
UpdateUserData(q) ==
    [Get(q.existing) EXCEPT
        !.username = IF q.body.username # None THEN Get(q.body.username) ELSE @,
        !.email = IF q.body.email # None THEN Get(q.body.email) ELSE @]

\* the outcome of prisma.user.update
UpdateUserCode(data, q) ==
    IF q.id \notin DOMAIN data THEN "P2025"
    ELSE IF UserUniqueFails(data, q.id, UpdateUserData(q).username, UpdateUserData(q).email)
    THEN "P2002"
    ELSE "ok"

\* updateUser from prisma.user.update to the response
UpdateUserWrite(r) ==
    /\ pc[r] = "updateUser.update"
    /\ LET q == req[r]
           code == UpdateUserCode(userData, q)
       IN  IF code = "ok"
           THEN /\ userData' = UserDataWith(userData, q.id,
                       [userData[q.id] EXCEPT !.username = UpdateUserData(q).username,
                                              !.email = UpdateUserData(q).email])
                /\ Respond(r, q, OkResp(200,
                       {[id |-> q.id, username |-> UpdateUserData(q).username,
                         email |-> UpdateUserData(q).email]}))
           ELSE /\ Respond(r, q, UpdateUserCatch(code))
                /\ UNCHANGED userData
    /\ UNCHANGED <<users, exercises, exerciseData, workouts, workoutExercises, logs, seqs>>

\* ----------------------------------------------- exercises (create, update)
\* req.body of createExercise and updateExercise
ExerciseBodies ==
    {[name |-> n, description |-> None] :
        n \in {None, Some(<<" ">>), Some(<<" ", ExerciseNames[1]>>)}
              \cup {Some(<<ExerciseNames[i]>>) : i \in ExerciseIdsDom}}

\* validateExerciseName: the error message, or none
ValidateExerciseName(name) ==
    IF name = None \/ Get(name) = << >> \/ Trim(Get(name)) = << >>
    THEN Some("Exercise name is required and must be a non-empty string")
    ELSE None

\* Exercise_name_key: another row holds the name
ExerciseUniqueFails(data, self, name) ==
    \E e \in DOMAIN data : e # self /\ data[e].name = name

\* the Exercise table after the insert or update of one row
ExerciseDataWith(data, id, row) ==
    [e \in DOMAIN data \cup {id} |-> IF e = id THEN row ELSE data[e]]

\* the catch block of createExercise
CreateExerciseCatch(code) ==
    IF code = "P2002" THEN ErrorResp(409, "An exercise with this name already exists")
    ELSE ErrorResp(500, "Failed to create exercise")

\* createExercise
CreateExercise(r, b) ==
    /\ pc[r] = "idle"
    /\ LET q == Request("createExercise", 0, None, None, None) IN
        IF ValidateExerciseName(b.name) # None
        THEN /\ Respond(r, q, ErrorResp(400, Get(ValidateExerciseName(b.name))))
             /\ UNCHANGED <<exercises, exerciseData, nextExerciseId>>
        ELSE LET row == [name |-> Trim(Get(b.name)), description |-> TrimOpt(b.description)]
             IN  IF ExerciseUniqueFails(exerciseData, 0, row.name)
                 THEN /\ Respond(r, q, CreateExerciseCatch("P2002"))
                      /\ UNCHANGED <<exercises, exerciseData, nextExerciseId>>
                 ELSE /\ nextExerciseId <= MaxExerciseId
                      /\ exercises' = exercises \cup {nextExerciseId}
                      /\ exerciseData' = ExerciseDataWith(exerciseData, nextExerciseId, row)
                      /\ nextExerciseId' = nextExerciseId + 1
                      /\ Respond(r, q, OkResp(201,
                             {[id |-> nextExerciseId, name |-> row.name,
                               description |-> row.description]}))
    /\ UNCHANGED <<users, userData, workouts, workoutExercises, logs,
                   nextUserId, nextWorkoutId, nextWeId, nextLogId>>

\* updateExercise up to the validation
UpdateExerciseRead(r, exerciseId, b) ==
    /\ pc[r] = "idle"
    /\ LET q == Request("updateExercise", exerciseId, None, None, None) IN
        IF exerciseId \notin exercises
        THEN Respond(r, q, ErrorResp(404, "Exercise not found"))
        ELSE IF NameInvalidIfProvided(b.name)
        THEN Respond(r, q, ErrorResp(400,
                 "Exercise name must be a non-empty string if provided"))
        ELSE Suspend(r, UpdateRequest("updateExercise", exerciseId, b,
                                      exerciseData[exerciseId]), "updateExercise.update")
    /\ UNCHANGED <<store, seqs>>

\* the catch block of updateExercise
UpdateExerciseCatch(code) ==
    IF code = "P2002" THEN ErrorResp(409, "An exercise with this name already exists")
    ELSE ErrorResp(500, "Failed to update exercise")

\* the data of prisma.exercise.update
UpdateExerciseData(q) ==
    [Get(q.existing) EXCEPT
        !.name = IF q.body.name # None THEN Trim(Get(q.body.name)) ELSE @,
        !.description = IF q.body.description # None THEN TrimOpt(q.body.description) ELSE @]

\* the outcome of prisma.exercise.update
UpdateExerciseCode(data, q) ==
    IF q.id \notin DOMAIN data THEN "P2025"
    ELSE IF ExerciseUniqueFails(data, q.id, UpdateExerciseData(q).name) THEN "P2002"
    ELSE "ok"

\* updateExercise from prisma.exercise.update to the response
UpdateExerciseWrite(r) ==
    /\ pc[r] = "updateExercise.update"
    /\ LET q == req[r]
           code == UpdateExerciseCode(exerciseData, q)
       IN  IF code = "ok"
           THEN /\ exerciseData' = ExerciseDataWith(exerciseData, q.id, UpdateExerciseData(q))
                /\ Respond(r, q, OkResp(200,
                       {[id |-> q.id, name |-> UpdateExerciseData(q).name,
                         description |-> UpdateExerciseData(q).description]}))
           ELSE /\ Respond(r, q, UpdateExerciseCatch(code))
                /\ UNCHANGED exerciseData
    /\ UNCHANGED <<users, userData, exercises, workouts, workoutExercises, logs, seqs>>

\* ------------------------------------------------------------------- Next
\* the handlers that write the store, for request r with bodies from the given sets
Writers(r, createBodies, updateBodies) ==
    \/ Close(r)
    \/ \E userId \in UserIds, b \in createBodies : CreateWorkoutCheck(r, userId, b)
    \/ CreateWorkoutInsert(r)
    \/ \E w \in WorkoutIds, b \in updateBodies : UpdateWorkoutRead(r, w, b)
    \/ UpdateWorkoutTx(r)
    \/ \E w \in WorkoutIds : DeleteWorkoutRead(r, w)
    \/ DeleteWorkoutDelete(r)
    \/ \E e \in ExerciseIdsDom : DeleteExerciseRead(r, e)
    \/ DeleteExerciseDelete(r)
    \/ \E u \in UserIds : DeleteUserRead(r, u)
    \/ DeleteUserDelete(r)

\* the handlers that only read
Readers(r) ==
    \/ \E w \in WorkoutIds : GetWorkoutById(r, w)
    \/ \E u \in UserIds : GetUserById(r, u)
    \/ \E e \in ExerciseIdsDom : GetExerciseById(r, e)
    \/ \E u \in UserIds : GetUserWorkoutsRead(r, u)
    \/ GetUserWorkoutsFind(r)

\* one request at a time: the next request arrives after the answer
Next ==
    \/ Writers(1, CreateBodies, UpdateBodies)
    \/ Readers(1)
    \/ \E u \in UserIds, w \in WorkoutIds, x \in 1 .. MaxWeId : CreateLog(u, w, x)

Spec == Init /\ [][Next]_vars

\* concurrent requests: the handlers interleave at their awaits
ConcEntries == {[exerciseId |-> e, sets |-> None, order |-> None] : e \in ExerciseIdsDom}
ConcLists == UNION {[1 .. n -> ConcEntries] : n \in 1 .. MaxLen}
ConcCreateBodies == {Body(Some(<<"A">>), None, Some(l)) : l \in ConcLists}
ConcUpdateBodies == {Body(None, None, Some(l)) : l \in ConcLists}

ConcNext == \E r \in Req : Writers(r, ConcCreateBodies, ConcUpdateBodies)

SpecConc == Init /\ [][ConcNext]_vars

\* a request that writes, next to a request that reads
ReadNext == Writers(1, ConcCreateBodies, ConcUpdateBodies) \/ Readers(2)

SpecRead == Init /\ [][ReadNext]_vars

\* ------------------------------------------------------------ verifyToken
\* a token: the userId claim, the key it was signed with, whether it expired
Tokens == [userId : UserIds, key : {"JWT_SECRET", "other"}, expired : BOOLEAN]

\* req.headers.authorization: absent, or a scheme and a credential
Headers == {None} \cup {Some(<<s, t>>) : s \in {"Basic", "Bearer"}, t \in Tokens}

\* jwt.verify(token, process.env.JWT_SECRET) does not throw
JwtVerify(token) == token.key = "JWT_SECRET" /\ ~token.expired

\* (mutation) the token of a user that is no longer stored is refused
VerifyTokenStored(method, header) ==
    IF method = "OPTIONS"
    THEN [next |-> TRUE, user |-> None, resp |-> NoResp]
    ELSE IF header = None \/ Get(header)[1] # "Bearer"
    THEN [next |-> FALSE, user |-> None,
          resp |-> ErrorResp(401, "Access denied. No token provided or invalid format.")]
    ELSE IF ~JwtVerify(Get(header)[2]) \/ Get(header)[2].userId \notin users
    THEN [next |-> FALSE, user |-> None, resp |-> ErrorResp(401, "Invalid token")]
    ELSE [next |-> TRUE, user |-> Some(Get(header)[2].userId), resp |-> NoResp]

\* (mutation) the scheme of the Authorization header is not looked at
VerifyTokenAnyScheme(method, header) ==
    IF method = "OPTIONS"
    THEN [next |-> TRUE, user |-> None, resp |-> NoResp]
    ELSE IF header = None
    THEN [next |-> FALSE, user |-> None,
          resp |-> ErrorResp(401, "Access denied. No token provided or invalid format.")]
    ELSE IF ~JwtVerify(Get(header)[2])
    THEN [next |-> FALSE, user |-> None, resp |-> ErrorResp(401, "Invalid token")]
    ELSE [next |-> TRUE, user |-> Some(Get(header)[2].userId), resp |-> NoResp]

\* verifyToken: next() is called, or the 401 it answers with
VerifyToken(method, header) ==
    IF method = "OPTIONS"
    THEN [next |-> TRUE, user |-> None, resp |-> NoResp]
    ELSE IF header = None \/ Get(header)[1] # "Bearer"
    THEN [next |-> FALSE, user |-> None,
          resp |-> ErrorResp(401, "Access denied. No token provided or invalid format.")]
    ELSE IF ~JwtVerify(Get(header)[2])
    THEN [next |-> FALSE, user |-> None, resp |-> ErrorResp(401, "Invalid token")]
    ELSE [next |-> TRUE, user |-> Some(Get(header)[2].userId), resp |-> NoResp]

\* the method of the route of each operation
Method(op) ==
    IF op \in {"createWorkout"} THEN "POST"
    ELSE IF op \in {"updateWorkout"} THEN "PUT"
    ELSE IF op \in {"deleteWorkout", "deleteUser", "deleteExercise"} THEN "DELETE"
    ELSE "GET"

\* the operations of the workouts router
WorkoutOps ==
    {"createWorkout", "getUserWorkouts", "getWorkoutById", "updateWorkout", "deleteWorkout"}

\* the routes that have verifyToken in front of the handler
GuardedOps == {"getUserById", "deleteUser", "getExerciseById", "deleteExercise"}

\* express runs the handler of the route: no middleware of it has answered
Route(op, header) == op \in GuardedOps => VerifyToken(Method(op), header).next

\* verifyToken answers the request; the handler is never invoked
Reject(r, op, id, header) ==
    /\ pc[r] = "idle"
    /\ ~Route(op, header)
    /\ Respond(r, Request(op, id, None, None, None), VerifyToken(Method(op), header).resp)
    /\ UNCHANGED <<store, seqs>>

\* one request at a time, each with an Authorization header
AuthNext ==
    \E header \in Headers :
        \/ Close(1)
        \/ \E userId \in UserIds, b \in ConcCreateBodies :
               Route("createWorkout", header) /\ CreateWorkoutCheck(1, userId, b)
        \/ CreateWorkoutInsert(1)
        \/ \E w \in WorkoutIds, b \in ConcUpdateBodies :
               Route("updateWorkout", header) /\ UpdateWorkoutRead(1, w, b)
        \/ UpdateWorkoutTx(1)
        \/ \E w \in WorkoutIds : Route("deleteWorkout", header) /\ DeleteWorkoutRead(1, w)
        \/ DeleteWorkoutDelete(1)
        \/ \E w \in WorkoutIds : Route("getWorkoutById", header) /\ GetWorkoutById(1, w)
        \/ \E u \in UserIds : Route("getUserWorkouts", header) /\ GetUserWorkoutsRead(1, u)
        \/ GetUserWorkoutsFind(1)
        \/ \E e \in ExerciseIdsDom : Route("deleteExercise", header) /\ DeleteExerciseRead(1, e)
        \/ DeleteExerciseDelete(1)
        \/ \E e \in ExerciseIdsDom : Route("getExerciseById", header) /\ GetExerciseById(1, e)
        \/ \E u \in UserIds : Route("deleteUser", header) /\ DeleteUserRead(1, u)
        \/ DeleteUserDelete(1)
        \/ \E u \in UserIds : Route("getUserById", header) /\ GetUserById(1, u)
        \/ \E op \in {"deleteUser", "getUserById"}, u \in UserIds : Reject(1, op, u, header)
        \/ \E op \in {"deleteExercise", "getExerciseById"}, e \in ExerciseIdsDom :
               Reject(1, op, e, header)

SpecAuth == Init /\ [][AuthNext]_vars

\* req.method
Methods == {"GET", "POST", "PUT", "DELETE", "OPTIONS"}

\* verifyToken in front of getCurrentUser: it answers 401, or calls next(),
\* and the handler runs up to its findUnique; the id of the request holds
\* req.user (None while verifyToken has not set it)
VerifyTokenCall(r, method, header) ==
    /\ pc[r] = "idle"
    /\ LET v == VerifyToken(method, header)
           q == Request("getCurrentUser", v.user, None, None, None) IN
        IF v.next
        THEN Suspend(r, q, "getCurrentUser.find")
        ELSE Respond(r, q, v.resp)
    /\ UNCHANGED <<store, seqs>>

\* getCurrentUser: req.user.id throws when req.user is not set (500 from the
\* catch); otherwise from prisma.user.findUnique to the response
GetCurrentUserFind(r) ==
    /\ pc[r] = "getCurrentUser.find"
    /\ IF req[r].id = None
       THEN Respond(r, req[r], ErrorResp(500, "Failed to fetch user profile"))
       ELSE IF Get(req[r].id) \notin users
       THEN Respond(r, req[r], ErrorResp(404, "User not found"))
       ELSE Respond(r, req[r],
                OkResp(200, Some([id |-> Get(req[r].id),
                                  username |-> userData[Get(req[r].id)].username,
                                  email |-> userData[Get(req[r].id)].email])))
    /\ UNCHANGED <<store, seqs>>

\* request 1 comes through verifyToken, request 2 deletes users next to it
TokenNext ==
    \/ \E r \in Req : Close(r)
    \/ \E method \in Methods, header \in Headers : VerifyTokenCall(1, method, header)
    \/ GetCurrentUserFind(1)
    \/ \E u \in UserIds : DeleteUserRead(2, u)
    \/ DeleteUserDelete(2)

SpecToken == Init /\ [][TokenNext]_vars

\* patches of PUT /workouts/:id that name any subset of the three fields
PatchUpdateBodies ==
    {Body(n, d, e) : n \in {None, Some(<<" ", "B">>)}, d \in {None, Some(<<"E", " ">>)},
                     e \in {None, Some(<< >>)} \cup {Some(l) : l \in ConcLists}}

\* one request at a time, with these patches
PatchNext == Writers(1, ConcCreateBodies, PatchUpdateBodies)

SpecPatch == Init /\ [][PatchNext]_vars

\* patches of PUT /workouts/:id without an exercises field
ScalarUpdateBodies ==
    {Body(n, d, None) : n \in {None, Some(<<" ", "B">>)}, d \in {None, Some(<<"E", " ">>)}}

\* one request at a time with these patches, while logs are recorded
ScalarNext ==
    \/ Writers(1, ConcCreateBodies, ScalarUpdateBodies)
    \/ \E u \in UserIds, w \in WorkoutIds, x \in 1 .. MaxWeId : CreateLog(u, w, x)

SpecScalar == Init /\ [][ScalarNext]_vars

\* patches of PUT /workouts/:id that name one field each
SingleFieldBodies ==
    {Body(Some(<<"B">>), None, None), Body(None, Some(<<"E">>), None)}
    \cup {Body(None, None, Some(<<x>>)) : x \in ConcEntries}

\* concurrent creations and updates of workouts with these patches
SingleFieldNext ==
    \E r \in Req :
        \/ Close(r)
        \/ \E userId \in UserIds, x \in ConcEntries :
               CreateWorkoutCheck(r, userId, Body(Some(<<"A">>), None, Some(<<x>>)))
        \/ CreateWorkoutInsert(r)
        \/ \E w \in WorkoutIds, b \in SingleFieldBodies : UpdateWorkoutRead(r, w, b)
        \/ UpdateWorkoutTx(r)

SpecSingleField == Init /\ [][SingleFieldNext]_vars

\* the server starts on the migrated database: every table is empty
InitEmpty ==
    /\ users = {} /\ exercises = {} /\ workouts = {}
    /\ userData = << >> /\ exerciseData = << >>
    /\ workoutExercises = {} /\ logs = {}
    /\ nextUserId = 1 /\ nextExerciseId = 1 /\ nextWorkoutId = 1
    /\ nextWeId = 1 /\ nextLogId = 1
    /\ pc = [r \in Req |-> "idle"]
    /\ req = [r \in Req |-> NoReq]
    /\ resp = [r \in Req |-> NoResp]

\* the patches of the administration run: a new name next to a good or a bad list
AdminUpdateBodies ==
    {Body(Some(<<"B">>), None, e) :
        e \in {None, Some(<< >>)} \cup {Some(<<x>>) : x \in ConcEntries}}

\* one request at a time: every operation that creates, updates or deletes
AdminNext ==
    \/ Writers(1, ConcCreateBodies, AdminUpdateBodies)
    \/ \E b \in UserBodies : CreateUser(1, b)
    \/ \E b \in UserBodies : Register(1, b)
    \/ \E u \in UserIds, b \in UserBodies : UpdateUserRead(1, u, b)
    \/ UpdateUserWrite(1)
    \/ \E b \in ExerciseBodies : CreateExercise(1, b)
    \/ \E e \in ExerciseIdsDom, b \in ExerciseBodies : UpdateExerciseRead(1, e, b)
    \/ UpdateExerciseWrite(1)

SpecAdmin == InitEmpty /\ [][AdminNext]_vars

\* the user routes under concurrent requests, from the empty database
UsersNext ==
    \E r \in Req :
        \/ Close(r)
        \/ \E b \in UserBodies : CreateUser(r, b)
        \/ \E b \in CredentialBodies : Register(r, b)
        \/ \E b \in LoginBodies : Login(r, b)
        \/ \E u \in UserIds, b \in UserBodies : UpdateUserRead(r, u, b)
        \/ UpdateUserWrite(r)
        \/ \E u \in UserIds : DeleteUserRead(r, u)
        \/ DeleteUserDelete(r)

SpecUsers == InitEmpty /\ [][UsersNext]_vars

\* entries whose sets and order are zero or negative integers
SignedShapes == {<<Some(0), Some(0)>>, <<Some(-1), Some(-2)>>}
SignedEntries ==
    {[exerciseId |-> e, sets |-> p[1], order |-> p[2]] : e \in ExerciseIdsDom, p \in SignedShapes}
SignedLists == UNION {[1 .. n -> SignedEntries] : n \in 1 .. MaxLen}
SignedCreateBodies == {Body(Some(<<"A">>), None, Some(l)) : l \in SignedLists}
SignedUpdateBodies == {Body(None, None, Some(l)) : l \in SignedLists}

\* one request at a time, with these entries
SignedNext == Writers(1, SignedCreateBodies, SignedUpdateBodies)

SpecSigned == Init /\ [][SignedNext]_vars

\* a WorkoutExercise row inserted by another client of the database: the
\* foreign keys and the unique index of the table decide whether it is stored
InsertWorkoutExercise(workoutId, exerciseId, order) ==
    LET row == [id |-> nextWeId, workoutId |-> workoutId, exerciseId |-> exerciseId,
                sets |-> 1, order |-> order]
    IN  /\ nextWeId <= MaxWeId
        /\ FindWorkout(workouts, workoutId) # {}
        /\ exerciseId \in exercises
        /\ ~UniqueFails(workoutExercises, {row})
        /\ workoutExercises' = workoutExercises \cup {row}
        /\ nextWeId' = nextWeId + 1
        /\ UNCHANGED <<users, exercises, workouts, logs, columns, nextUserId, nextExerciseId,
                       nextWorkoutId, nextLogId, pc, req, resp>>

\* the API under concurrent requests, next to other writers of the table
DbNext ==
    \/ ConcNext
    \/ \E w \in WorkoutIds, e \in ExerciseIdsDom, o \in 1 .. MaxLen :
           InsertWorkoutExercise(w, e, o)

SpecDb == Init /\ [][DbNext]_vars

\* the API under concurrent requests, while clients of the database record logs
LogNext ==
    \/ ConcNext
    \/ \E u \in UserIds, w \in WorkoutIds, x \in 1 .. MaxWeId : CreateLog(u, w, x)

SpecLog == Init /\ [][LogNext]_vars

\* the handlers suspended at an insert that takes ids from the sequences
Inserting == {r \in Req : pc[r] \in {"createWorkout.create", "updateWorkout.tx"}}

\* requests are accepted while the ids of the model last for those in flight
IdsLeft ==
    /\ nextWorkoutId + Cardinality(Inserting) <= MaxWorkoutId
    /\ nextWeId + Cardinality(Inserting) <= MaxWeId

\* request 1 runs the five writing operations, request 2 deletes next to it
LiveNext ==
    \/ \E r \in Req : Close(r)
    \/ \E userId \in UserIds, x \in ConcEntries :
           IdsLeft /\ CreateWorkoutCheck(1, userId, Body(Some(<<"A">>), None, Some(<<x>>)))
    \/ CreateWorkoutInsert(1)
    \/ \E w \in WorkoutIds, b \in SingleFieldBodies \cup {Body(None, None, Some(<< >>))} :
           IdsLeft /\ UpdateWorkoutRead(1, w, b)
    \/ UpdateWorkoutTx(1)
    \/ \E r \in Req, w \in WorkoutIds : DeleteWorkoutRead(r, w)
    \/ \E r \in Req : DeleteWorkoutDelete(r)
    \/ \E r \in Req, e \in ExerciseIdsDom : DeleteExerciseRead(r, e)
    \/ \E r \in Req : DeleteExerciseDelete(r)
    \/ \E u \in UserIds : DeleteUserRead(1, u)
    \/ DeleteUserDelete(1)

\* the database answers every query and the event loop resumes the handler
Resumed ==
    /\ WF_vars(CreateWorkoutInsert(1))
    /\ WF_vars(UpdateWorkoutTx(1))
    /\ WF_vars(DeleteUserDelete(1))
    /\ \A r \in Req : WF_vars(DeleteWorkoutDelete(r)) /\ WF_vars(DeleteExerciseDelete(r))

SpecLive == Init /\ [][LiveNext]_vars /\ Resumed

\* ----------------------------------------------------------------- claims
\* the body passes the validation of createWorkout (name and list present)
ValidCreateBody(b) ==
    /\ ~NameInvalidRequired(b.name)
    /\ b.exercises # None
    /\ Len(Get(b.exercises)) > 0

\* some entry of the list references no existing Exercise
ReferencesMissing(exs) == \E i \in DOMAIN exs : exs[i].exerciseId \notin exercises

\* the (exerciseId, sets, order) of the entries, defaults applied, with their
\* multiplicity, and the same of a set of rows
Resolved(e) == <<e.exerciseId, OrOne(e.sets), OrOne(e.order)>>
Triple(x) == <<x.exerciseId, x.sets, x.order>>
RowsMatchList(rows, exs) ==
    /\ Cardinality(rows) = Len(exs)
    /\ \A i \in DOMAIN exs :
          Cardinality({x \in rows : Triple(x) = Resolved(exs[i])})
              = Cardinality({j \in DOMAIN exs : Resolved(exs[j]) = Resolved(exs[i])})

\* the rows listed in a response body
BodyList(v) == {v.workoutExercises[i] : i \in DOMAIN v.workoutExercises}

\* C1: a createWorkout request whose list names an exerciseId of no existing
\* Exercise is answered 404, no Workout and no WorkoutExercise row is added,
\* and getUserWorkouts of that user gives what it gave before the call.
C1_MissingExerciseRejected ==
    [][\A r \in Req :
        /\ (pc[r] = "idle" /\ req'[r].op = "createWorkout") =>
           \A userId \in UserIds, b \in CreateBodies :
              (/\ ValidCreateBody(b)
               /\ ReferencesMissing(Get(b.exercises))
               /\ CreateWorkoutCheck(r, userId, b))
              => /\ pc'[r] = "done"
                 /\ resp'[r].status = 404
                 /\ workouts' = workouts
                 /\ workoutExercises' = workoutExercises
                 /\ FindManyWorkouts(workouts', workoutExercises', userId)
                      = FindManyWorkouts(workouts, workoutExercises, userId)
        /\ (/\ pc[r] = "createWorkout.create"
            /\ ReferencesMissing(Get(req[r].exercises))
            /\ CreateWorkoutInsert(r))
           => /\ resp'[r].status = 404
              /\ workouts' = workouts
              /\ workoutExercises' = workoutExercises
    ]_vars

\* C1 witness: no exercise is left, so the list of the request named a missing
\* one, and the request was answered by the existence check
C1_Witness ==
    \E r \in Req :
        /\ pc[r] = "done" /\ req[r].op = "createWorkout"
        /\ resp[r] = ErrorResp(404, "One or more exercises do not exist")
        /\ exercises = {}

\* C2: a createWorkout answered 201 for a list of N entries added exactly one
\* Workout, owned by the userId of the request, and exactly N WorkoutExercise
\* rows under it, one per entry with the entry's exerciseId; the body lists
\* exactly these rows.
C2_CreateCommitsListedRows ==
    [][\A r \in Req :
        (/\ pc[r] = "createWorkout.create"
         /\ CreateWorkoutInsert(r)
         /\ resp'[r].status = 201)
        => \E w \in workouts' \ workouts :
              /\ workouts' = workouts \cup {w}
              /\ w.userId = req[r].id
              /\ workoutExercises' \ workoutExercises = RowsOf(workoutExercises', w.id)
              /\ workoutExercises \subseteq workoutExercises'
              /\ RowsMatchList(RowsOf(workoutExercises', w.id), Get(req[r].exercises))
              /\ \E v \in resp'[r].body :
                    /\ resp'[r].body = {v}
                    /\ v.id = w.id /\ v.userId = w.userId
                    /\ Len(v.workoutExercises) = Len(Get(req[r].exercises))
                    /\ BodyList(v) = RowsOf(workoutExercises', w.id)
    ]_vars

\* C2 witness: a 201 whose body lists two rows of the new workout
C2_Witness ==
    \E r \in Req :
        /\ pc[r] = "done" /\ req[r].op = "createWorkout" /\ resp[r].status = 201
        /\ \E v \in resp[r].body :
              /\ Len(v.workoutExercises) = 2
              /\ BodyList(v) = RowsOf(workoutExercises, v.id)
              /\ FindWorkout(workouts, v.id) # {}

\* C3: after an updateWorkout answered 200 for a patch with an exercises list
\* L, the rows of the workout are the entries of L with the defaults applied,
\* as many as L is long, and no row the workout had before is left.
C3_UpdateReplacesRows ==
    [][\A r \in Req :
        (/\ pc[r] = "updateWorkout.tx"
         /\ req[r].exercises # None
         /\ UpdateWorkoutTx(r)
         /\ resp'[r].status = 200)
        => LET before == RowsOf(workoutExercises, req[r].id)
               after == RowsOf(workoutExercises', req[r].id)
           IN  /\ RowsMatchList(after, Get(req[r].exercises))
               /\ Cardinality(after) = Len(Get(req[r].exercises))
               /\ before \cap after = {}
               /\ {x.id : x \in before} \cap {x.id : x \in after} = {}
    ]_vars

\* C3 witness: workout 1 was created with row 1; an update answered 200 and
\* the workout now has other rows only
C3_Witness ==
    \E r \in Req :
        /\ pc[r] = "done" /\ req[r].op = "updateWorkout" /\ req[r].id = 1
        /\ resp[r].status = 200
        /\ \E v \in resp[r].body :
              /\ BodyList(v) = RowsOf(workoutExercises, 1)
              /\ Len(v.workoutExercises) = 2
              /\ \A x \in BodyList(v) : x.id > 1

\* C4: deleteWorkout of an existing workout is answered 204 whatever rows and
\* logs it has; afterwards no WorkoutExercise and no Log references it and
\* getWorkoutById answers 404.
C4_DeleteWorkoutCascades ==
    [][\A r \in Req :
        (/\ pc[r] = "deleteWorkout.delete"
         /\ FindWorkout(workouts, req[r].id) # {}
         /\ DeleteWorkoutDelete(r))
        => /\ resp'[r].status = 204
           /\ RowsOf(workoutExercises', req[r].id) = {}
           /\ \A l \in logs' :
                 /\ l.workoutId # req[r].id
                 /\ l.workoutExerciseId \in {x.id : x \in workoutExercises'}
           /\ GetWorkoutByIdStatus(workouts', req[r].id) = 404
    ]_vars

\* C4 witness: the only workout ever created, with its row and the log on
\* it, is gone after a deleteWorkout answered 204
C4_Witness ==
    \E r \in Req :
        /\ pc[r] = "done" /\ req[r].op = "deleteWorkout" /\ resp[r].status = 204
        /\ nextWorkoutId = 2 /\ nextWeId = 2 /\ nextLogId = 2
        /\ users = UserIds
        /\ workouts = {} /\ workoutExercises = {} /\ logs = {}

C6_DeleteUserCascades ==
    [][\A r \in Req :
        (/\ pc[r] = "deleteUser.delete"
         /\ req[r].id \in users
         /\ DeleteUserDelete(r))
        => LET former == WorkoutIdsOf(WorkoutsOfUser(workouts, req[r].id)) IN
           /\ resp'[r].status = 204
           /\ WorkoutsOfUser(workouts', req[r].id) = {}
           /\ \A x \in workoutExercises' : x.workoutId \notin former
           /\ \A l \in logs' : l.userId # req[r].id /\ l.workoutId \notin former
           /\ GetUserByIdStatus(users', req[r].id) = 404
    ]_vars

\* C6 witness: a user is gone after a deleteUser answered 204, and with the
\* user the only workout ever created, its row and the log
C6_Witness ==
    \E r \in Req :
        /\ pc[r] = "done" /\ req[r].op = "deleteUser" /\ resp[r].status = 204
        /\ users = UserIds \ {req[r].id}
        /\ nextWorkoutId = 2 /\ nextWeId = 2 /\ nextLogId = 2
        /\ workouts = {} /\ workoutExercises = {} /\ logs = {}

\* C7: in every reachable state no two WorkoutExercise rows have the same
\* (workoutId, exerciseId, order).
C7_UniqueTriple ==
    \A x \in workoutExercises, y \in workoutExercises :
        (x.workoutId = y.workoutId /\ x.exerciseId = y.exerciseId /\ x.order = y.order)
            => x.id = y.id

\* C7 witness: a workout holds the same exercise at two orders
C7_Witness ==
    \E x \in workoutExercises, y \in workoutExercises :
        x.id # y.id /\ x.workoutId = y.workoutId /\ x.exerciseId = y.exerciseId

\* two entries of the list have the same exerciseId and the same resolved order
DuplicateKey(exs) ==
    \E i \in DOMAIN exs, j \in DOMAIN exs :
        /\ i # j
        /\ exs[i].exerciseId = exs[j].exerciseId
        /\ OrOne(exs[i].order) = OrOne(exs[j].order)

\* the list names one exerciseId twice, at two different resolved orders
SameExerciseTwoOrders(exs) ==
    /\ Len(exs) = 2
    /\ exs[1].exerciseId = exs[2].exerciseId
    /\ OrOne(exs[1].order) # OrOne(exs[2].order)

\* C8 as claimed: a createWorkout or updateWorkout whose list has two entries
\* with the same exerciseId and resolved order is answered Conflict (409) and
\* persists nothing.
C8_Claimed ==
    [][\A r \in Req :
        /\ (pc[r] = "idle" /\ req'[r].op = "createWorkout") =>
           \A userId \in UserIds, b \in CreateBodies :
              (/\ ValidCreateBody(b)
               /\ ~ReferencesMissing(Get(b.exercises))
               /\ DuplicateKey(Get(b.exercises))
               /\ CreateWorkoutCheck(r, userId, b))
              => /\ pc'[r] = "done"
                 /\ resp'[r].status = 409
                 /\ store' = store
        /\ (/\ pc[r] = "updateWorkout.tx"
            /\ FindWorkout(workouts, req[r].id) # {}
            /\ req[r].exercises # None
            /\ Len(Get(req[r].exercises)) > 0
            /\ ~ReferencesMissing(Get(req[r].exercises))
            /\ DuplicateKey(Get(req[r].exercises))
            /\ UpdateWorkoutTx(r))
           => /\ resp'[r].status = 409
              /\ store' = store
    ]_vars

\* C9 as claimed: a createWorkout that lists one existing exerciseId twice, at
\* two different orders, passes the existence check, and is then answered 201
\* with two rows for that exercise.
C9_Claimed ==
    [][\A r \in Req :
        /\ (pc[r] = "idle" /\ req'[r].op = "createWorkout") =>
           \A userId \in UserIds, b \in CreateBodies :
              (/\ ValidCreateBody(b)
               /\ ~ReferencesMissing(Get(b.exercises))
               /\ SameExerciseTwoOrders(Get(b.exercises))
               /\ CreateWorkoutCheck(r, userId, b))
              => pc'[r] = "createWorkout.create"
        /\ (/\ pc[r] = "createWorkout.create"
            /\ req[r].id \in users
            /\ ~ReferencesMissing(Get(req[r].exercises))
            /\ SameExerciseTwoOrders(Get(req[r].exercises))
            /\ CreateWorkoutInsert(r))
           => /\ resp'[r].status = 201
              /\ Cardinality(workoutExercises' \ workoutExercises) = 2
    ]_vars

\* C10 as claimed: a createWorkout for a userId of no existing User, with a
\* valid name and existing exercises, is answered 404 'User not found' and
\* persists no row.
C10_Claimed ==
    [][\A r \in Req :
        (/\ pc[r] = "createWorkout.create"
         /\ req[r].id \notin users
         /\ ~ReferencesMissing(Get(req[r].exercises))
         /\ CreateWorkoutInsert(r))
        => /\ resp'[r] = ErrorResp(404, "User not found")
           /\ workouts' = workouts
           /\ workoutExercises' = workoutExercises
    ]_vars

\* C11: a createWorkout whose name is missing or empty after trimming, or
\* whose exercises value is missing or an empty list, is answered 400 by the
\* validation that comes before every access to the store (the name is tested
\* first), whatever the store holds, and the store is unchanged.
C11_InvalidBodyRejected ==
    [][\A r \in Req :
        (pc[r] = "idle" /\ req'[r].op = "createWorkout") =>
        \A userId \in UserIds, b \in CreateBodies :
           /\ (/\ (b.name = None \/ Trim(Get(b.name)) = << >>)
               /\ CreateWorkoutCheck(r, userId, b))
              => /\ pc'[r] = "done"
                 /\ resp'[r] = ErrorResp(400,
                       "Workout name is required and must be a non-empty string")
                 /\ store' = store
           /\ (/\ b.name # None /\ Trim(Get(b.name)) # << >>
               /\ (b.exercises = None \/ Get(b.exercises) = << >>)
               /\ CreateWorkoutCheck(r, userId, b))
              => /\ pc'[r] = "done"
                 /\ resp'[r] = ErrorResp(400, "At least one exercise is required")
                 /\ store' = store
    ]_vars

\* C11 witness: a createWorkout refused by the validation while the store
\* holds a workout and a user is gone
C11_Witness ==
    \E r \in Req :
        /\ pc[r] = "done" /\ req[r].op = "createWorkout"
        /\ resp[r].status = 400
        /\ req[r].id \notin users
        /\ workouts # {}

\* C17: when an updateWorkout with an exercises list is answered 200, every
\* Log on one of the workout's previous rows is deleted, whatever the new
\* list, and no Log is left on a row that does not exist.
C17_UpdateDeletesLogsOfRows ==
    [][\A r \in Req :
        (/\ pc[r] = "updateWorkout.tx"
         /\ req[r].exercises # None
         /\ UpdateWorkoutTx(r)
         /\ resp'[r].status = 200)
        => LET before == {x.id : x \in RowsOf(workoutExercises, req[r].id)} IN
           /\ \A l \in logs : l.workoutExerciseId \in before => l \notin logs'
           /\ \A l \in logs' : l.workoutExerciseId \in {x.id : x \in workoutExercises'}
           /\ logs' \subseteq logs
    ]_vars

\* C17 witness: the only workout ever created still exists, a log was
\* written on its row, and after an update answered 200 the log is gone
C17_Witness ==
    \E r \in Req :
        /\ pc[r] = "done" /\ req[r].op = "updateWorkout" /\ resp[r].status = 200
        /\ users = UserIds
        /\ nextWorkoutId = 2 /\ workouts # {}
        /\ nextLogId = 2 /\ logs = {}

\* C18: once no existing workout references exercise e any more (the workouts
\* that did were removed), deleteExercise(e) is answered 204 and
\* getExerciseById(e) answers 404 afterwards: a removed workout leaves no row
\* that blocks the deletion.
C18_DeleteExerciseAfterWorkouts ==
    [][\A r \in Req :
        (/\ pc[r] = "deleteExercise.delete"
         /\ req[r].id \in exercises
         /\ \A x \in workoutExercises :
               x.exerciseId = req[r].id => FindWorkout(workouts, x.workoutId) = {}
         /\ DeleteExerciseDelete(r))
        => /\ resp'[r].status = 204
           /\ GetExerciseByIdStatus(exercises', req[r].id) = 404
    ]_vars

\* C18 witness: the only workout ever created had one row and was removed
\* by deleteWorkout; afterwards every exercise, the referenced one among
\* them, could be deleted
C18_Witness ==
    \E r \in Req :
        /\ pc[r] = "done" /\ req[r].op = "deleteExercise" /\ resp[r].status = 204
        /\ users = UserIds
        /\ nextWorkoutId = 2 /\ nextWeId = 2 /\ workouts = {}
        /\ exercises = {}

\* C12: when the exercises list of an updateWorkout on an existing workout is
\* empty or names an exerciseId of no Exercise, the call is answered 400
\* resp. 404 and the workout is as before: the same rows, and the same name
\* and description whatever the patch supplied for them.
C12_FailedUpdateLeavesWorkout ==
    [][\A r \in Req :
        (/\ pc[r] = "updateWorkout.tx"
         /\ FindWorkout(workouts, req[r].id) # {}
         /\ req[r].exercises # None
         /\ (Get(req[r].exercises) = << >> \/ ReferencesMissing(Get(req[r].exercises)))
         /\ UpdateWorkoutTx(r))
        => /\ resp'[r].status = IF Get(req[r].exercises) = << >> THEN 400 ELSE 404
           /\ RowsOf(workoutExercises', req[r].id) = RowsOf(workoutExercises, req[r].id)
           /\ FindWorkout(workouts', req[r].id) = FindWorkout(workouts, req[r].id)
           /\ store' = store
    ]_vars

\* C12 witness: an update refused for a missing exercise while the workout
\* exists under the name it was created with
C12_Witness ==
    \E r \in Req :
        /\ pc[r] = "done" /\ req[r].op = "updateWorkout"
        /\ resp[r] = ErrorResp(404, "One or more exercises do not exist")
        /\ \E w \in FindWorkout(workouts, req[r].id) :
              w.name = <<"A">> /\ RowsOf(workoutExercises, w.id) # {}

\* C19: no step changes the userId of a workout that exists before and after
\* it.
C19_OwnerNeverChanges ==
    [][\A w \in workouts, v \in workouts' : v.id = w.id => v.userId = w.userId]_vars

\* C19 witness: a workout of user 2 after an update that renamed it
C19_Witness ==
    \E r \in Req :
        /\ pc[r] = "done" /\ req[r].op = "updateWorkout" /\ resp[r].status = 200
        /\ \E v \in resp[r].body :
              /\ v.userId = 2 /\ v.name = <<"B">>
              /\ \E w \in FindWorkout(workouts, v.id) : w.userId = 2 /\ w.name = <<"B">>

\* C20 as claimed: every stored WorkoutExercise row has sets >= 1 and
\* order >= 1, whatever integers the requests supplied.
C20_Claimed ==
    \A x \in workoutExercises : x.sets >= 1 /\ x.order >= 1

\* C15: when an updateWorkout with an exercises list commits with 200 while
\* another updateWorkout on the same workout is in its transaction window or
\* has been answered 200, the rows of the workout afterwards are exactly the
\* list of the committing call: none of the rows before, none of the rows the
\* other call returned.
C15_ConcurrentUpdatesLastWins ==
    [][\A r \in Req, o \in Req :
        (/\ r # o
         /\ pc[r] = "updateWorkout.tx"
         /\ req[r].exercises # None
         /\ req[o].op = "updateWorkout" /\ req[o].id = req[r].id
         /\ \/ pc[o] = "updateWorkout.tx"
            \/ pc[o] = "done" /\ resp[o].status = 200
         /\ UpdateWorkoutTx(r)
         /\ resp'[r].status = 200)
        => LET before == RowsOf(workoutExercises, req[r].id)
               after == RowsOf(workoutExercises', req[r].id)
           IN  /\ RowsMatchList(after, Get(req[r].exercises))
               /\ before \cap after = {}
               /\ \A v \in resp[o].body : BodyList(v) \cap after = {}
    ]_vars

\* C15 witness: two updates of workout 1 were both answered 200 with
\* different rows, and the workout holds the rows of one of them
C15_Witness ==
    \E r \in Req, o \in Req :
        /\ r # o
        /\ pc[r] = "done" /\ req[r].op = "updateWorkout" /\ resp[r].status = 200
        /\ pc[o] = "done" /\ req[o].op = "updateWorkout" /\ resp[o].status = 200
        /\ req[r].id = req[o].id
        /\ \E v \in resp[r].body, u \in resp[o].body :
              /\ BodyList(v) = RowsOf(workoutExercises, v.id)
              /\ BodyList(u) # {} /\ BodyList(u) \cap BodyList(v) = {}
              /\ {x.exerciseId : x \in BodyList(u)} # {x.exerciseId : x \in BodyList(v)}

\* C16: a getWorkoutById or getUserWorkouts answered 200 lists, for each
\* workout, exactly the committed rows of the workout at the read, never
\* none; next to an updateWorkout answered 200 these are all the rows of the
\* update or none of them.
C16_ReadersSeeCompleteSets ==
    [][\A r \in Req :
        (/\ pc[r] # "done" /\ pc'[r] = "done"
         /\ req'[r].op \in {"getWorkoutById", "getUserWorkouts"}
         /\ resp'[r].status = 200)
        => \A v \in resp'[r].body :
              /\ BodyList(v) = RowsOf(workoutExercises, v.id)
              /\ Len(v.workoutExercises) = Cardinality(RowsOf(workoutExercises, v.id))
              /\ BodyList(v) # {}
              /\ \A o \in Req \ {r} :
                    (pc[o] = "done" /\ req[o].op = "updateWorkout" /\ resp[o].status = 200)
                    => \A u \in resp[o].body :
                          BodyList(v) = BodyList(u) \/ BodyList(v) \cap BodyList(u) = {}
    ]_vars

\* C16 witness: getWorkoutById answered with the rows of the workout while
\* an updateWorkout of that workout is in its transaction window
C16_Witness ==
    \E r \in Req, o \in Req :
        /\ pc[r] = "done" /\ req[r].op = "getWorkoutById" /\ resp[r].status = 200
        /\ pc[o] = "updateWorkout.tx" /\ req[o].id = req[r].id
        /\ \E v \in resp[r].body :
              BodyList(v) = RowsOf(workoutExercises, v.id) /\ BodyList(v) # {}

\* C14 as claimed: a request to a workout operation whose Authorization
\* header carries no token that verifies is answered 401, its handler does
\* not run, and the store is unchanged.
C14_Claimed ==
    [][\A r \in Req :
        (pc[r] = "idle" /\ req'[r].op \in WorkoutOps) =>
        \A header \in Headers :
           (/\ ~VerifyToken(Method(req'[r].op), header).next
            /\ Route(req'[r].op, header))
           => /\ pc'[r] = "done"
              /\ resp'[r].status = 401
              /\ store' = store
    ]_vars

\* C13: a step of a handler that does not end its invocation with a 2xx
\* answer leaves every table as it was: a handler that suspends has written
\* nothing, and one that answers an error has written nothing that stays.
C13_FailureLeavesStore ==
    [][\A r \in Req :
        (/\ pc'[r] # "idle"
         /\ pc'[r] # pc[r]
         /\ ~(pc'[r] = "done" /\ resp'[r].status \in 200 .. 299))
        => store' = store
    ]_vars

\* C13 witness: an operation was refused with a unique violation while users,
\* exercises and a renamed workout are stored
C13_Witness ==
    \E r \in Req :
        /\ pc[r] = "done" /\ resp[r].status = 409
        /\ users # {} /\ exercises # {}
        /\ \E w \in workouts : w.name = <<"B">>

\* C21: register stores the e-mail and the hash of the password under a fresh
\* id, no later step changes the hash of a stored user or hands the id out
\* again, and a login with the e-mail and the password of a stored user
\* answers 200 with a token for that user and the user's username. So after
\* a successful register a login with the same e-mail and password succeeds
\* as long as the user was not deleted and its e-mail was not changed.
C21_LoginAfterRegister ==
    [][\A r \in Req :
        /\ (pc[r] = "idle" /\ req'[r].op = "register" /\ resp'[r].status = 201) =>
           \A b \in CredentialBodies :
              Register(r, b) =>
                 LET v == Get(resp'[r].body) IN
                 /\ v.user.id \notin users /\ v.user.id \in users'
                 /\ userData'[v.user.id].email = Get(b.email)
                 /\ userData'[v.user.id].username = Get(b.username)
                 /\ userData'[v.user.id].passwordHash = Hash(Get(b.password))
        /\ \A u \in users' :
              IF u \in users
              THEN userData'[u].passwordHash = userData[u].passwordHash
              ELSE u = nextUserId /\ nextUserId' = u + 1
        /\ (pc[r] = "idle" /\ req'[r].op = "login") =>
           \A b \in LoginBodies, u \in users :
              (/\ b.email = Some(userData[u].email)
               /\ b.password # None
               /\ userData[u].passwordHash = Hash(Get(b.password))
               /\ Login(r, b))
              => /\ resp'[r].status = 200
                 /\ Get(resp'[r].body).token = Sign(u)
                 /\ JwtVerify(Get(resp'[r].body).token)
                 /\ Get(resp'[r].body).user.username = userData[u].username
    ]_vars

\* C21 witness: a login answered 200 for the user a register, whose answer is
\* still held by the other request, created with the password "no"
C21_Witness ==
    \E r, r2 \in Req :
        /\ pc[r] = "done" /\ req[r].op = "register" /\ resp[r].status = 201
        /\ pc[r2] = "done" /\ req[r2].op = "login" /\ resp[r2].status = 200
        /\ Get(resp[r2].body).user.id = Get(resp[r].body).user.id
        /\ userData[Get(resp[r].body).user.id].passwordHash = Hash("no")

\* the login body carries an e-mail and a password, and the e-mail belongs to
\* no user or the password is not the one of the user with that e-mail
BadCredentials(b) ==
    /\ b.email # None /\ b.password # None
    /\ \A u \in users :
          userData[u].email = Get(b.email)
              => userData[u].passwordHash # Hash(Get(b.password))

\* C22: a login with an e-mail and a password, whose e-mail belongs to no user
\* or whose password is not the user's, answers 401 with an error and no
\* token, and every such login gets the same response in the same state,
\* whether the e-mail is registered or not.
C22_BadLoginUniform ==
    [][\A r \in Req :
        (pc[r] = "idle" /\ req'[r].op = "login") =>
           \A b \in LoginBodies :
              (BadCredentials(b) /\ Login(r, b))
              => /\ resp'[r].status = 401
                 /\ resp'[r].error # ""
                 /\ resp'[r].body = {}
                 /\ \A b2 \in LoginBodies :
                       BadCredentials(b2) => LoginResponse(userData, b2) = resp'[r]
    ]_vars

\* C22 witness: two logins were answered 401 while one of the two e-mail
\* addresses is registered and the other is not
C22_Witness ==
    /\ \A r \in Req : pc[r] = "done" /\ req[r].op = "login" /\ resp[r].status = 401
    /\ Cardinality({userData[u].email : u \in users}) = 1

\* the Authorization header that carries the token issued to user u
BearerOf(u) == Some(<<"Bearer", Sign(u)>>)

\* C23: once user u is deleted, GET /users/u with the token that was issued
\* to u passes verifyToken (which sets req.user to u and never answers 401)
\* and getUserById answers 404 'User not found'.
C23_TokenOutlivesUser ==
    [][\A r \in Req, u \in UserIds :
        (pc[r] = "idle" /\ u \notin users /\ u < nextUserId)
        => /\ VerifyToken(Method("getUserById"), BearerOf(u)).next
           /\ VerifyToken(Method("getUserById"), BearerOf(u)).user = Some(u)
           /\ ~Reject(r, "getUserById", u, BearerOf(u))
           /\ (Route("getUserById", BearerOf(u)) /\ GetUserById(r, u))
              => resp'[r] = ErrorResp(404, "User not found")
    ]_vars

\* C23 witness: GET /users/u was answered 404 for a user that was deleted
C23_Witness ==
    \E r \in Req :
        /\ pc[r] = "done" /\ req[r].op = "getUserById" /\ resp[r].status = 404
        /\ req[r].id \notin users /\ req[r].id < nextUserId

\* no two User rows share a username, and no two share an e-mail
UsersUnique ==
    \A u, v \in users :
        u # v => /\ userData[u].username # userData[v].username
                 /\ userData[u].email # userData[v].email

\* a row other than self holds the username or the e-mail
Taken(self, username, email) ==
    \E u \in users \ {self} :
        userData[u].username = username \/ userData[u].email = email

\* C24: in every reachable state the usernames and the e-mails of the User
\* rows are pairwise different, and a createUser or register with all its
\* fields, or the write of an updateUser, whose username or e-mail is held by
\* another row answers 409 and leaves every row as it was.
C24_UsersUnique ==
    /\ []UsersUnique
    /\ [][\A r \in Req :
            /\ (pc[r] = "idle" /\ req'[r].op = "createUser") =>
               \A b \in UserBodies :
                  (/\ b.username # None /\ b.email # None
                   /\ Taken(0, Get(b.username), Get(b.email))
                   /\ CreateUser(r, b))
                  => resp'[r].status = 409 /\ store' = store
            /\ (pc[r] = "idle" /\ req'[r].op = "register") =>
               \A b \in CredentialBodies :
                  (/\ b.username # None /\ b.email # None /\ b.password # None
                   /\ Taken(0, Get(b.username), Get(b.email))
                   /\ Register(r, b))
                  => resp'[r].status = 409 /\ store' = store
            /\ (/\ pc[r] = "updateUser.update"
                /\ req[r].id \in users
                /\ Taken(req[r].id,
                         IF req[r].body.username # None THEN Get(req[r].body.username)
                         ELSE Get(req[r].existing).username,
                         IF req[r].body.email # None THEN Get(req[r].body.email)
                         ELSE Get(req[r].existing).email)
                /\ UpdateUserWrite(r))
               => resp'[r].status = 409 /\ store' = store
       ]_vars

\* C24 witness: an updateUser was answered 409 while two users are stored
C24_Witness ==
    \E r \in Req :
        /\ pc[r] = "done" /\ req[r].op = "updateUser" /\ resp[r].status = 409
        /\ Cardinality(users) = 2

\* the value the claim expects to be stored for an optional integer field
ClaimedValue(o) == IF o = None THEN 1 ELSE Get(o)

\* some row of the set carries the entry with the values the claim expects
StoredAsClaimed(rows, e) ==
    \E x \in rows : /\ x.exerciseId = e.exerciseId
                    /\ x.sets = ClaimedValue(e.sets)
                    /\ x.order = ClaimedValue(e.order)

\* C25 as claimed: a createWorkout or updateWorkout that succeeds stores, for
\* every entry of its list, a row with sets = 1 when sets is omitted and the
\* supplied integer otherwise, and the same for order.
C25_Claimed ==
    [][\A r \in Req :
        /\ (/\ pc[r] = "createWorkout.create"
            /\ CreateWorkoutInsert(r)
            /\ resp'[r].status = 201)
           => \A i \in DOMAIN Get(req[r].exercises) :
                 StoredAsClaimed(workoutExercises' \ workoutExercises,
                                 Get(req[r].exercises)[i])
        /\ (/\ pc[r] = "updateWorkout.tx"
            /\ req[r].exercises # None
            /\ UpdateWorkoutTx(r)
            /\ resp'[r].status = 200)
           => \A i \in DOMAIN Get(req[r].exercises) :
                 StoredAsClaimed(RowsOf(workoutExercises', req[r].id),
                                 Get(req[r].exercises)[i])
    ]_vars

\* C26: an updateWorkout whose patch has no exercises field leaves the store
\* as it is up to its transaction, and its transaction changes at most the
\* name and the description of that one workout: the WorkoutExercise rows
\* (ids included), the Log rows, the other workouts and the owner are as before.
C26_ScalarPatchFrame ==
    [][\A r \in Req :
        /\ (pc[r] = "idle" /\ req'[r].op = "updateWorkout") => store' = store
        /\ (/\ pc[r] = "updateWorkout.tx"
            /\ req[r].exercises = None
            /\ UpdateWorkoutTx(r))
           => /\ workoutExercises' = workoutExercises
              /\ logs' = logs
              /\ users' = users /\ exercises' = exercises /\ columns' = columns
              /\ WorkoutIdsOf(workouts') = WorkoutIdsOf(workouts)
              /\ \A w \in workouts :
                    IF w.id = req[r].id
                    THEN \E v \in workouts' : v.id = w.id /\ v.userId = w.userId
                    ELSE w \in workouts'
    ]_vars

\* C26 witness: a workout renamed and described by a patch without exercises,
\* still with its first row and with a log on that row
C26_Witness ==
    \E r \in Req :
        /\ pc[r] = "done" /\ req[r].op = "updateWorkout" /\ resp[r].status = 200
        /\ \E w \in FindWorkout(workouts, req[r].id) :
              /\ w.name = <<"B">> /\ w.description = Some(<<"E">>)
              /\ \E x \in RowsOf(workoutExercises, w.id), l \in logs :
                    x.id = 1 /\ l.workoutExerciseId = x.id

\* C27 as claimed: the transaction of an updateWorkout whose patch omits name
\* leaves the name of the workout as it is at that moment, and one whose
\* patch omits description leaves the description, whatever other requests
\* committed since this call read the workout.
C27_Claimed ==
    [][\A r \in Req :
        (pc[r] = "updateWorkout.tx" /\ UpdateWorkoutTx(r))
        => \A w \in workouts, v \in workouts' :
              (w.id = req[r].id /\ v.id = w.id)
              => /\ req[r].name = None => v.name = w.name
                 /\ req[r].description = None => v.description = w.description
    ]_vars

\* every WorkoutExercise row references an existing Exercise and an existing
\* Workout, and every Workout an existing User
ReferencesHold ==
    /\ \A x \in workoutExercises :
          x.exerciseId \in exercises /\ x.workoutId \in WorkoutIdsOf(workouts)
    /\ \A w \in workouts : w.userId \in users

\* C28: when an exercise of the list or the user has been deleted after the
\* existence check of a createWorkout, its insert is answered 404 and adds no
\* Workout and no WorkoutExercise row; and in every state each WorkoutExercise
\* row references an existing exercise.
C28_CreateRacesDelete ==
    /\ []ReferencesHold
    /\ [][\A r \in Req :
            (/\ pc[r] = "createWorkout.create"
             /\ (ReferencesMissing(Get(req[r].exercises)) \/ req[r].id \notin users)
             /\ CreateWorkoutInsert(r))
            => /\ resp'[r].status = 404
               /\ resp'[r].error # ""
               /\ workouts' = workouts
               /\ workoutExercises' = workoutExercises
               /\ store' = store
       ]_vars

\* C28 witness: a createWorkout was answered from its catch block after the
\* other request deleted an exercise
C28_Witness ==
    \E r, o \in Req :
        /\ pc[r] = "done" /\ req[r].op = "createWorkout"
        /\ resp[r] = ErrorResp(404, "One or more exercises not found")
        /\ req[r].id \in users
        /\ pc[o] = "done" /\ req[o].op = "deleteExercise" /\ resp[o].status = 204

\* C29 as claimed: when the workout has been deleted after the existence read
\* of an updateWorkout, its transaction is answered 404, and afterwards the
\* workout does not exist and no WorkoutExercise row references it.
C29_Claimed ==
    [][\A r \in Req :
        (/\ pc[r] = "updateWorkout.tx"
         /\ FindWorkout(workouts, req[r].id) = {}
         /\ UpdateWorkoutTx(r))
        => /\ resp'[r].status = 404
           /\ FindWorkout(workouts', req[r].id) = {}
           /\ RowsOf(workoutExercises', req[r].id) = {}
    ]_vars

\* C30 as claimed: when a deleteWorkout has passed its existence check and
\* another deleteWorkout of the same workout has been answered 204 since, the
\* first is answered 404.
C30_Claimed ==
    [][\A r \in Req, o \in Req :
        (/\ r # o
         /\ pc[r] = "deleteWorkout.delete"
         /\ pc[o] = "done" /\ req[o].op = "deleteWorkout" /\ req[o].id = req[r].id
         /\ resp[o].status = 204
         /\ DeleteWorkoutDelete(r))
        => resp'[r].status = 404
    ]_vars

\* C31: in every reachable state every WorkoutExercise row references an
\* existing Workout and an existing Exercise, every Workout an existing User,
\* and every Log an existing User, Workout and WorkoutExercise row.
C31_ForeignKeysHold ==
    /\ ReferencesHold
    /\ \A l \in logs :
          /\ l.userId \in users
          /\ l.workoutId \in WorkoutIdsOf(workouts)
          /\ l.workoutExerciseId \in {x.id : x \in workoutExercises}

\* C31 witness: a log is stored after one request deleted a workout and
\* another deleted a user
C31_Witness ==
    /\ logs # {}
    /\ \E r, o \in Req :
          /\ pc[r] = "done" /\ req[r].op = "deleteWorkout" /\ resp[r].status = 204
          /\ pc[o] = "done" /\ req[o].op = "deleteUser" /\ resp[o].status = 204

\* C32: in every reachable state every Workout has at least one
\* WorkoutExercise row.
C32_WorkoutsNeverEmpty ==
    \A w \in workouts : RowsOf(workoutExercises, w.id) # {}

\* C32 witness: an updateWorkout with an empty list was refused, and the
\* workout it named is stored
C32_Witness ==
    \E r \in Req :
        /\ pc[r] = "done" /\ req[r].op = "updateWorkout"
        /\ resp[r] = ErrorResp(400, "At least one exercise is required")
        /\ FindWorkout(workouts, req[r].id) # {}

\* C33: the workoutExercises list of every 200 response of updateWorkout and
\* of getWorkoutById is sorted ascending by order.
C33_ListsSortedByOrder ==
    \A r \in Req :
        (/\ pc[r] = "done"
         /\ req[r].op \in {"updateWorkout", "getWorkoutById"}
         /\ resp[r].status = 200)
        => \A v \in resp[r].body :
              \A i, j \in DOMAIN v.workoutExercises :
                 i < j => v.workoutExercises[i].order <= v.workoutExercises[j].order

\* C33 witness: an updateWorkout answered with two rows of different order,
\* the row listed first having been inserted after the row listed second
C33_Witness ==
    \E r \in Req :
        /\ pc[r] = "done" /\ req[r].op = "updateWorkout" /\ resp[r].status = 200
        /\ \E v \in resp[r].body :
              /\ Len(v.workoutExercises) = 2
              /\ v.workoutExercises[1].order < v.workoutExercises[2].order
              /\ v.workoutExercises[1].id > v.workoutExercises[2].id

\* C34: getUserWorkouts of a user that does not exist is answered 404;
\* otherwise it is answered 200 with one entry for each workout whose userId
\* is that user and no other entry (none when the user has no workout), and
\* each entry lists exactly the WorkoutExercise rows of its workout, once each.
C34_UserWorkoutsExact ==
    [][\A r \in Req :
        /\ (pc[r] = "idle" /\ req'[r].op = "getUserWorkouts") =>
              IF req'[r].id \in users
              THEN pc'[r] = "getUserWorkouts.findMany" /\ store' = store
              ELSE pc'[r] = "done" /\ resp'[r].status = 404
        /\ (pc[r] = "getUserWorkouts.findMany" /\ GetUserWorkoutsFind(r))
           => /\ resp'[r].status = 200
              /\ {v.id : v \in resp'[r].body} = {w.id : w \in {x \in workouts : x.userId = req[r].id}}
              /\ Cardinality(resp'[r].body) = Cardinality({x \in workouts : x.userId = req[r].id})
              /\ \A v \in resp'[r].body :
                    /\ v.userId = req[r].id
                    /\ BodyList(v) = RowsOf(workoutExercises, v.id)
                    /\ Len(v.workoutExercises) = Cardinality(RowsOf(workoutExercises, v.id))
    ]_vars

\* C34 witness: getUserWorkouts answered with the one workout of its user
\* while another user has a workout too
C34_Witness ==
    \E r \in Req :
        /\ pc[r] = "done" /\ req[r].op = "getUserWorkouts" /\ resp[r].status = 200
        /\ Cardinality(resp[r].body) = 1
        /\ \E w \in workouts : w.userId # req[r].id

\* C35 as claimed: no response body of createUser, register, login or
\* updateUser carries a passwordHash field, neither at its top level nor in
\* the user object it wraps.
C35_Claimed ==
    \A r \in Req :
        req[r].op \in {"createUser", "register", "login", "updateUser"}
        => \A v \in resp[r].body :
              /\ "passwordHash" \notin DOMAIN v
              /\ "user" \in DOMAIN v => "passwordHash" \notin DOMAIN v.user

\* C36: every invocation of createWorkout, updateWorkout, deleteWorkout,
\* deleteExercise and deleteUser sends a response (a handler that has started
\* eventually is done), and exactly one: a response is sent only by the step
\* that ends the handler, none was sent before it in the same invocation, and
\* it stays as sent until the slot is closed.
C36_OneResponse ==
    /\ \A r \in Req : (pc[r] # "idle") ~> (pc[r] = "done")
    /\ [][\A r \in Req :
            /\ pc[r] = "done" =>
                  \/ pc'[r] = "done" /\ resp'[r] = resp[r]
                  \/ pc'[r] = "idle" /\ resp'[r] = NoResp
            /\ (pc[r] # "done" /\ pc'[r] = "done") =>
                  resp[r] = NoResp /\ resp'[r].status \in 200 .. 599
            /\ pc'[r] # "done" => resp'[r] = NoResp
       ]_vars

\* C36 witness: an updateWorkout ended on the error path of its transaction
\* after the other request deleted the workout
C36_Witness ==
    /\ pc[1] = "done" /\ req[1].op = "updateWorkout" /\ resp[1].status = 500
    /\ pc[2] = "done" /\ req[2].op = "deleteWorkout" /\ resp[2].status = 204

\* C37: verifyToken calls the next handler exactly when the method is OPTIONS
\* or the Authorization header is 'Bearer <token>' with a token signed with
\* the secret and not expired; in every other case it answers 401, changes
\* nothing and the handler does not start (the request is done without having
\* been at the findUnique of the handler); when a token let the request
\* through, req.user.id is the userId claim of that token.
C37_VerifyTokenGate ==
    [][\A r \in Req :
        (pc[r] = "idle" /\ req'[r].op = "getCurrentUser") =>
        \A method \in Methods, header \in Headers :
           VerifyTokenCall(r, method, header) =>
           LET bearer == /\ header # None
                         /\ Get(header)[1] = "Bearer"
                         /\ Get(header)[2].key = "JWT_SECRET"
                         /\ ~Get(header)[2].expired
           IN  /\ (method = "OPTIONS" \/ bearer)
                  => pc'[r] = "getCurrentUser.find" /\ resp'[r] = NoResp
               /\ ~(method = "OPTIONS" \/ bearer)
                  => /\ pc'[r] = "done"
                     /\ resp'[r].status = 401
                     /\ store' = store
               /\ (method # "OPTIONS" /\ bearer)
                  => req'[r].id = Some(Get(header)[2].userId)
    ]_vars

\* C37 witness: a token let the request through and getCurrentUser answered
\* for the user of the token, while the other user has been deleted
C37_Witness ==
    /\ pc[1] = "done" /\ req[1].op = "getCurrentUser"
    /\ resp[1].status = 200 /\ Get(resp[1].body).id = Get(req[1].id)
    /\ users # UserIds
====
